---- MODULE Spec2Model ----
(***************************************************************************)
(* Risk Detection & Scoring Engine of the Scribbit fairness scanner.       *)
(*                                                                         *)
(* The model follows three scripts and the order in which a page (or a     *)
(* test harness) loads them:                                                *)
(*   riskModel.js  - Risk Card Registry and scoring helpers                 *)
(*   rules.js      - the rule catalog (detectors, evaluateAll)              *)
(*   riskEngine.js - evaluatePage                                           *)
(* Every script captures window.ScribbitRiskModel / window.ScribbitRules    *)
(* once, when it is loaded, so the load order decides which registry the    *)
(* detectors see and which scoring path evaluatePage takes.                 *)
(*                                                                         *)
(* Around the engine the model follows the scripts that call it or show     *)
(* its results, each under a specification of its own:                      *)
(*   scanner.js    - init, the SPA URL watcher and the mutation observer,   *)
(*                   with time counted in periods of the URL watcher        *)
(*   panel.js      - the on-page panel and its per-domain mode, in the      *)
(*                   three versions of the script                           *)
(*   background.js - the per-tab store of the background worker             *)
(*                                                                         *)
(* Texts are TLA+ strings; Len, SubSeq and \o act on them character by      *)
(* character, which is how the detectors' substring tests are modelled.     *)
(***************************************************************************)
EXTENDS Integers, Sequences, FiniteSets, TLC

(***************************************************************************)
(* Bounds of the model                                                      *)
(***************************************************************************)
\* number of filler sentences used to build the long page text
FillerRepeats == 9
\* longest list of findings handed to the auto-popup decision
MaxPopupRisks == 2
\* largest maxSnippets handed to findKeywordEvidence
MaxSnippetLimit == 3

(***************************************************************************)
(* Strings (JavaScript String.prototype)                                    *)
(***************************************************************************)
UpperAlphabet == "ABCDEFGHIJKLMNOPQRSTUVWXYZ"
LowerAlphabet == "abcdefghijklmnopqrstuvwxyz"
DigitChars == "0123456789"

\* s[p], the empty string outside the string (where JavaScript gives undefined)
CharAt(s, p) == IF p >= 1 /\ p <= Len(s) THEN SubSeq(s, p, p) ELSE ""

\* s.slice(from - 1, to): positions from..to, clamped to the string
slice(s, from, to) ==
  LET lo == IF from < 1 THEN 1 ELSE from
      hi == IF to > Len(s) THEN Len(s) ELSE to
  IN IF lo > hi THEN "" ELSE SubSeq(s, lo, hi)

SetMin(S) == CHOOSE m \in S : \A x \in S : m <= x
SetMax(S) == CHOOSE m \in S : \A x \in S : m >= x

Chars(alphabet) == { CharAt(alphabet, i) : i \in 1..Len(alphabet) }
UpperLetters == Chars(UpperAlphabet)
LowerLetters == Chars(LowerAlphabet)
Digits == Chars(DigitChars)

\* the letter of alphabet to at the place c has in alphabet from
LetterMap(from, to) ==
  [c \in Chars(from) |-> CharAt(to, CHOOSE i \in 1..Len(from) : CharAt(from, i) = c)]
ToLower == LetterMap(UpperAlphabet, LowerAlphabet)
ToUpper == LetterMap(LowerAlphabet, UpperAlphabet)

LowerChar(c) == IF c \in UpperLetters THEN ToLower[c] ELSE c

UpperChar(c) == IF c \in LowerLetters THEN ToUpper[c] ELSE c

RECURSIVE MapChars(_, _, _, _)
\* applies a character map to positions lo..hi of s; toUpper selects the map
\* (the range is halved at each step to keep the evaluation shallow)
MapChars(s, lo, hi, toUpper) ==
  IF lo > hi THEN ""
  ELSE IF lo = hi
  THEN (IF toUpper THEN UpperChar(CharAt(s, lo)) ELSE LowerChar(CharAt(s, lo)))
  ELSE LET mid == (lo + hi) \div 2
       IN MapChars(s, lo, mid, toUpper) \o MapChars(s, mid + 1, hi, toUpper)

toLowerCase(s) == MapChars(s, 1, Len(s), FALSE)
toUpperCase(s) == MapChars(s, 1, Len(s), TRUE)

\* String.prototype.includes
includes(s, needle) ==
  \E p \in 1..(Len(s) - Len(needle) + 1) : SubSeq(s, p, p + Len(needle) - 1) = needle

\* String.prototype.indexOf(needle, from) with 1-based positions; 0 is "not found"
indexOf(s, needle, from) ==
  LET hits == { p \in from..(Len(s) - Len(needle) + 1) :
                  SubSeq(s, p, p + Len(needle) - 1) = needle }
  IN IF hits = {} THEN 0 ELSE SetMin(hits)

\* String.prototype.lastIndexOf of a single character, 1-based; 0 is "not found"
lastIndexOf(s, c) ==
  LET hits == { p \in 1..Len(s) : CharAt(s, p) = c }
  IN IF hits = {} THEN 0 ELSE SetMax(hits)

IsSpaceChar(c) == c \in {" ", "\n", "\r", "\t"}
IsDigitChar(c) == c \in Digits
IsWordChar(c) == c \in UpperLetters \/ c \in LowerLetters \/ IsDigitChar(c) \/ c = "_"

\* String.prototype.trim
trim(s) ==
  LET solid == { p \in 1..Len(s) : ~IsSpaceChar(CharAt(s, p)) }
  IN IF solid = {} THEN "" ELSE SubSeq(s, SetMin(solid), SetMax(solid))

RECURSIVE CollapseRange(_, _, _)
\* s.replace(/\s+/g, " ") on positions lo..hi: a run of whitespace leaves one space
CollapseRange(s, lo, hi) ==
  IF lo > hi THEN ""
  ELSE IF lo = hi
  THEN (IF IsSpaceChar(CharAt(s, lo))
        THEN (IF IsSpaceChar(CharAt(s, lo - 1)) THEN "" ELSE " ")
        ELSE CharAt(s, lo))
  ELSE LET mid == (lo + hi) \div 2
       IN CollapseRange(s, lo, mid) \o CollapseRange(s, mid + 1, hi)

\* s.replace(/\s+/g, " ").trim()
collapseWhitespace(s) == trim(CollapseRange(s, 1, Len(s)))

RECURSIVE Repeat(_, _)
Repeat(s, n) == IF n = 0 THEN "" ELSE s \o Repeat(s, n - 1)

(***************************************************************************)
(* JavaScript values of the snapshot fields                                 *)
(***************************************************************************)
JsUndefined == [t |-> "undefined", s |-> "", n |-> 0, a |-> <<>>]
JsString(x) == [t |-> "string", s |-> x, n |-> 0, a |-> <<>>]
JsNumber(k) == [t |-> "number", s |-> "", n |-> k, a |-> <<>>]
JsArray(xs) == [t |-> "array", s |-> "", n |-> 0, a |-> xs]

\* ToBoolean
Truthy(v) ==
  CASE v.t = "undefined" -> FALSE
    [] v.t = "string" -> v.s # ""
    [] v.t = "number" -> v.n # 0
    [] OTHER -> TRUE

\* v || ""
OrEmptyString(v) == IF Truthy(v) THEN v ELSE JsString("")

(***************************************************************************)
(* Risk Card Registry (riskModel.js) and the registry the engine's own      *)
(* test harness installs (riskEngine.test.js).  A card is                   *)
(* <<id, category, severity, autoPopupWorthy>>; title and description are   *)
(* display text and are left out.                                           *)
(***************************************************************************)
CATEGORIES == <<"financial", "data_privacy", "content_ip", "legal_rights">>

CardTable(rows) ==
  [id \in { r[1] : r \in rows } |->
     LET r == CHOOSE x \in rows : x[1] = id
     IN [id |-> r[1], category |-> r[2], severity |-> r[3], autoPopupWorthy |-> r[4]]]

RISK_CARDS == CardTable({
    <<"extra_fees_not_in_base_price", "financial", "med", TRUE>>,
    <<"resort_or_facility_fee", "financial", "high", TRUE>>,
    <<"taxes_not_included", "financial", "med", FALSE>>,
    <<"short_refund_or_return_window", "financial", "med", TRUE>>,
    <<"non_refundable_or_final_sale", "financial", "high", TRUE>>,
    <<"buyer_pays_return_shipping", "financial", "med", TRUE>>,
    <<"partial_refund_only", "financial", "med", TRUE>>,
    <<"auto_renewing_subscription", "financial", "med", TRUE>>,
    <<"dcc_or_fx_markup", "financial", "high", TRUE>>,
    <<"charged_in_different_currency", "financial", "med", TRUE>>,
    <<"price_anchoring_or_reference_prices", "financial", "med", FALSE>>,
    <<"extensive_data_collection", "data_privacy", "med", FALSE>>,
    <<"sensitive_data_collection", "data_privacy", "high", TRUE>>,
    <<"images_used_for_analysis_or_improvement", "data_privacy", "med", TRUE>>,
    <<"data_shared_with_third_parties", "data_privacy", "med", FALSE>>,
    <<"data_used_to_train_ai", "data_privacy", "high", TRUE>>,
    <<"precise_location_tracking", "data_privacy", "high", TRUE>>,
    <<"data_retention_after_deletion", "data_privacy", "high", TRUE>>,
    <<"cross_site_or_cross_device_tracking", "data_privacy", "med", FALSE>>,
    <<"broad_license_to_user_content", "content_ip", "high", TRUE>>,
    <<"irrevocable_or_perpetual_license", "content_ip", "high", TRUE>>,
    <<"content_may_be_used_in_marketing_or_publicly", "content_ip", "high", TRUE>>,
    <<"uploads_may_be_public_or_searchable", "content_ip", "high", TRUE>>,
    <<"mandatory_arbitration", "legal_rights", "high", TRUE>>,
    <<"class_action_waiver", "legal_rights", "high", TRUE>>,
    <<"unilateral_terms_changes", "legal_rights", "med", FALSE>>,
    <<"strong_liability_limitations", "legal_rights", "med", TRUE>>,
    <<"account_termination_at_discretion", "legal_rights", "med", FALSE>>,
    <<"loss_of_content_or_balance_on_termination", "legal_rights", "high", TRUE>>,
    <<"weak_security_commitments", "legal_rights", "med", FALSE>>,
    <<"no_liability_for_data_breach", "legal_rights", "high", TRUE>>
  })

STUB_RISK_CARDS == CardTable({
    <<"non_refundable_or_final_sale", "financial", "HIGH", FALSE>>,
    <<"short_refund_or_return_window", "financial", "MED", FALSE>>,
    <<"dcc_or_fx_markup", "financial", "HIGH", FALSE>>,
    <<"mandatory_arbitration", "legal_rights", "HIGH", FALSE>>,
    <<"auto_renewing_subscription", "financial", "HIGH", FALSE>>,
    <<"unilateral_terms_changes", "legal_rights", "MED", FALSE>>,
    <<"extra_fees_not_in_base_price", "financial", "MED", FALSE>>,
    <<"resort_or_facility_fee", "financial", "HIGH", FALSE>>
  })

NO_RISK_CARDS == CardTable({})

\* the RISK_CARDS object a script sees, by the value of window.ScribbitRiskModel
\* it captured when it was loaded
CardsOf(riskModel) ==
  CASE riskModel = "full" -> RISK_CARDS
    [] riskModel = "stub" -> STUB_RISK_CARDS
    [] OTHER -> NO_RISK_CARDS

(***************************************************************************)
(* rules.js helpers                                                         *)
(***************************************************************************)
\* legacy numeric mapping SEVERITY_SCORE
SEVERITY_SCORE == [LOW |-> 1, MEDIUM |-> 2, HIGH |-> 3]

\* what a detector (or a helper it calls) hands back: a finding, null, or an
\* exception that unwinds to the nearest try/catch
NoRisk ==
  [id |-> "", category |-> "", severity |-> "", autoPopupWorthy |-> FALSE,
   severityScore |-> 0, tags |-> <<>>, evidence |-> <<>>]
ReturnNull == [kind |-> "null", risk |-> NoRisk]
Throw == [kind |-> "throw", risk |-> NoRisk]
ReturnRisk(r) == [kind |-> "risk", risk |-> r]

\* createRiskFromCard that fills in a default card for an id the registry lacks
createRiskFromCard_DefaultsUnknownCard(cards, cardId, evidence, tags) ==
  LET known == cardId \in DOMAIN cards
      sevLower == IF known THEN toLowerCase(cards[cardId].severity) ELSE "med"
      sevUpper == IF sevLower = "high" THEN "HIGH"
                  ELSE IF sevLower = "low" THEN "LOW" ELSE "MEDIUM"
  IN ReturnRisk([id |-> cardId,
                 category |-> IF known THEN cards[cardId].category ELSE "financial",
                 severity |-> sevUpper,
                 autoPopupWorthy |-> IF known THEN cards[cardId].autoPopupWorthy ELSE FALSE,
                 severityScore |-> SEVERITY_SCORE[sevUpper],
                 tags |-> tags,
                 evidence |-> evidence])

\* createRiskFromCard(cardId, evidence, extras); every caller passes
\* extras = { tags: [...] }, which Object.assign writes over the empty tags
createRiskFromCard(cards, cardId, evidence, tags) ==
  IF cardId \notin DOMAIN cards
  THEN ReturnNull
  ELSE LET def == cards[cardId]
           sevLower == toLowerCase(def.severity)
           sevUpper == IF sevLower = "high" THEN "HIGH"
                       ELSE IF sevLower = "low" THEN "LOW" ELSE "MEDIUM"
       IN ReturnRisk([id |-> def.id,
                      category |-> def.category,
                      severity |-> sevUpper,
                      autoPopupWorthy |-> def.autoPopupWorthy,
                      severityScore |-> SEVERITY_SCORE[sevUpper],
                      tags |-> tags,
                      evidence |-> evidence])

RECURSIVE DigitRun(_, _)
DigitRun(txt, p) ==
  IF p <= Len(txt) /\ IsDigitChar(CharAt(txt, p)) THEN 1 + DigitRun(txt, p + 1) ELSE 0

RECURSIVE SpaceRun(_, _)
SpaceRun(txt, p) ==
  IF p <= Len(txt) /\ IsSpaceChar(CharAt(txt, p)) THEN 1 + SpaceRun(txt, p + 1) ELSE 0

LowerAt(txt, p, len) == toLowerCase(slice(txt, p, p + len - 1))

\* the artifact patterns of cleanEvidenceSnippet, each the sequence of its items:
\*   /Scribbit\s+Multi-Risk\s+Test\s+Terms/gi
\*   /Scribbit\b/gi
\*   /rail risk\s*\(\s*\d+\/\d+\s*\)/gi
\* an item is \s+, \s*, \d+, \b or a literal, matched ignoring case
ArtifactPatterns ==
  << <<"scribbit", "\\s+", "multi-risk", "\\s+", "test", "\\s+", "terms">>,
     <<"scribbit", "\\b">>,
     <<"rail risk", "\\s*", "(", "\\s*", "\\d+", "/", "\\d+", "\\s*", ")">> >>

RECURSIVE SequenceEnd(_, _, _, _)
\* the position after the match of items[i..] that starts at position p of
\* txt, 0 when there is none.  Every repetition is followed by an item it
\* cannot match, so the greedy match is the only one; \b follows a letter.
SequenceEnd(txt, p, items, i) ==
  IF i > Len(items) THEN p
  ELSE CASE items[i] = "\\s+" ->
              IF SpaceRun(txt, p) = 0 THEN 0
              ELSE SequenceEnd(txt, p + SpaceRun(txt, p), items, i + 1)
         [] items[i] = "\\s*" -> SequenceEnd(txt, p + SpaceRun(txt, p), items, i + 1)
         [] items[i] = "\\d+" ->
              IF DigitRun(txt, p) = 0 THEN 0
              ELSE SequenceEnd(txt, p + DigitRun(txt, p), items, i + 1)
         [] items[i] = "\\b" ->
              IF p <= Len(txt) /\ IsWordChar(CharAt(txt, p)) THEN 0
              ELSE SequenceEnd(txt, p, items, i + 1)
         [] OTHER ->
              IF LowerAt(txt, p, Len(items[i])) # items[i] THEN 0
              ELSE SequenceEnd(txt, p + Len(items[i]), items, i + 1)

\* the positions of txt that a match of the pattern starting at p covers
ArtifactMatch(pattern, txt, p) == p..(SequenceEnd(txt, p, ArtifactPatterns[pattern], 1) - 1)

RECURSIVE KeepRange(_, _, _, _)
\* the characters of txt at the positions of lo..hi that are not in removed
KeepRange(txt, removed, lo, hi) ==
  IF lo > hi THEN ""
  ELSE IF lo = hi THEN (IF lo \in removed THEN "" ELSE CharAt(txt, lo))
  ELSE KeepRange(txt, removed, lo, (lo + hi) \div 2)
         \o KeepRange(txt, removed, (lo + hi) \div 2 + 1, hi)

\* txt.replace(pattern, ""): no match of one of the three patterns can start
\* inside another match of the same pattern, so the matches the left-to-right
\* scan removes are all the matches there are
StripArtifact(pattern, txt) ==
  KeepRange(txt, UNION { ArtifactMatch(pattern, txt, p) : p \in 1..Len(txt) }, 1, Len(txt))

\* the ellipsis character is written "..."
Ellipsis == "..."

\* cleanEvidenceSnippet from "if (!txt)" on: the cut at maxLen
TruncateSnippet(txt, maxLen) ==
  IF txt = "" THEN ""
  ELSE IF Len(txt) > maxLen
  THEN LET cut == SubSeq(txt, 1, maxLen - 1)
           \* 0-based indices as in the source
           lastPeriod == lastIndexOf(cut, ".") - 1
           lastSpace == lastIndexOf(cut, " ") - 1
           boundary == IF lastPeriod > 80 THEN lastPeriod + 1
                       ELSE IF lastSpace > 80 THEN lastSpace ELSE Len(cut)
       IN trim(SubSeq(cut, 1, boundary)) \o Ellipsis
  ELSE txt

\* cleanEvidenceSnippet(snippet, maxLen)
cleanEvidenceSnippet(snippet, maxLen) ==
  TruncateSnippet(
    collapseWhitespace(
      StripArtifact(3, StripArtifact(2, StripArtifact(1, collapseWhitespace(snippet))))),
    maxLen)

IsSentenceBoundary(c) == c \in {".", "!", "?", "\n", "\r"}

\* the sentence around the hit of needle at position index of rawText
\* (findKeywordEvidence, the body of its while loop up to rawText.slice)
SentenceAround(rawText, lowerRaw, index, needleLen) ==
  LET start == SetMax({ q \in 1..index :
                          q = 1 \/ IsSentenceBoundary(CharAt(lowerRaw, q - 1)) })
      stops == { q \in (index + needleLen)..Len(lowerRaw) :
                   IsSentenceBoundary(CharAt(lowerRaw, q)) }
      end == IF stops = {} THEN Len(lowerRaw) ELSE SetMin(stops)
      end2 == IF end < start
              THEN (IF Len(lowerRaw) < index - 1 + needleLen + 80
                    THEN Len(lowerRaw) ELSE index - 1 + needleLen + 80)
              ELSE end
  IN slice(rawText, start, end2)

LowerAll(snippets) == { toLowerCase(snippets[i]) : i \in 1..Len(snippets) }

\* PushSnippet that compares a snippet with the earlier ones letter case and all
PushSnippet_ExactDedup(snippets, cleaned) ==
  IF cleaned # "" /\ cleaned \notin { snippets[i] : i \in 1..Len(snippets) }
  THEN Append(snippets, cleaned) ELSE snippets

\* snippets.push(cleaned) unless cleaned is empty or was added before
PushSnippet(snippets, cleaned) ==
  IF cleaned # "" /\ toLowerCase(cleaned) \notin LowerAll(snippets)
  THEN Append(snippets, cleaned) ELSE snippets

RECURSIVE EvidenceLoop(_, _, _, _, _, _, _)
RECURSIVE EvidenceWhile(_, _, _, _, _, _, _, _)
\* the while loop of findKeywordEvidence for keyword k, at the hit index of needle
EvidenceWhile(rawText, lowerRaw, keywords, k, needle, index, snippets, maxSnippets) ==
  IF index # 0 /\ Len(snippets) < maxSnippets
  THEN EvidenceLoop(rawText, lowerRaw, keywords, k, index + Len(needle),
         PushSnippet(snippets,
           cleanEvidenceSnippet(SentenceAround(rawText, lowerRaw, index, Len(needle)), 220)),
         maxSnippets)
  ELSE IF Len(snippets) >= maxSnippets THEN snippets
  ELSE EvidenceLoop(rawText, lowerRaw, keywords, k + 1, 1, snippets, maxSnippets)

\* the for loop of findKeywordEvidence: keyword k, search resumed at from
EvidenceLoop(rawText, lowerRaw, keywords, k, from, snippets, maxSnippets) ==
  IF k > Len(keywords) THEN snippets
  ELSE EvidenceWhile(rawText, lowerRaw, keywords, k, toLowerCase(keywords[k]),
                     indexOf(lowerRaw, toLowerCase(keywords[k]), from), snippets, maxSnippets)

\* findKeywordEvidence(textNormalized, rawText, keywords, maxSnippets): rawText is
\* the JavaScript value the detector read from the snapshot; a truthy value
\* that is not a string has no toLowerCase and the call throws
findKeywordEvidence(rawText, keywords, maxSnippets) ==
  IF ~Truthy(rawText) \/ Len(keywords) = 0
  THEN [kind |-> "ok", snippets |-> <<>>]
  ELSE IF rawText.t # "string"
  THEN [kind |-> "throw", snippets |-> <<>>]
  ELSE [kind |-> "ok",
        snippets |-> EvidenceLoop(rawText.s, toLowerCase(rawText.s), keywords, 1, 1,
                                  <<>>, maxSnippets)]

\* keywords.some((kw) => text.includes(kw))
SomeIncluded(text, keywords) == \E i \in 1..Len(keywords) : includes(text, keywords[i])

(***************************************************************************)
(* Phrase lists of the detectors (rules.js).  The en dash of the phrase     *)
(* "30 - 60 days" is written ~; the model's texts are ASCII.                *)
(***************************************************************************)
REFUND_strongTerms ==
  << "non-refundable", "nonrefundable", "no refund", "no refunds", "no cancellations",
     "cannot be cancelled", "cannot be canceled" >>

REFUND_weakerSignals ==
  << "cancellation fee", "cancellation policy", "refund policy", "change fee",
     "amendment fee" >>

SHORT_WINDOW_contextKeywords ==
  << "cancel", "cancellation", "refund", "refundable" >>

ultraShortPhrases ==
  << "within 24 hours", "within 48 hours", "within 72 hours", "24 hours of purchase",
     "48 hours of purchase", "72 hours of purchase", "24 hours of booking",
     "48 hours of booking", "72 hours of booking" >>

shortPhrases ==
  << "within 7 days", "up to 7 days", "7 days of purchase", "7 days of booking",
     "7 days before arrival", "7 days before check-in", "seven days before arrival",
     "seven days before check in" >>

DELAY_contextKeywords ==
  << "refund", "refunded", "refunds", "reimbursement", "credited" >>

delayPhrases ==
  << "within 30 days", "within 45 days", "within 60 days",
     "30 days of the refund request", "30 days of your refund request",
     "30 days after your request", "30 days after the request", "30 to 60 days",
     "30-60 days", "30 ~ 60 days", "may take 30 days", "may take up to 30 days",
     "may take up to 60 days", "processing time of 30 days",
     "processing time of 60 days", "4-6 weeks", "4 to 6 weeks", "four to six weeks" >>

PERCENTAGE_contextKeywords ==
  << "cancel", "cancellation", "refund", "refundable" >>

dccPhrases ==
  << "dynamic currency conversion", "dcc", "pay in your card currency",
     "pay in your currency", "pay in card currency", "you will be charged in",
     "will be charged in", "charged in your currency", "currency conversion fee",
     "currency conversion", "conversion fee", "conversion rate applies",
     "exchange rate will be", "we convert", "we may convert", "local currency",
     "card currency", "foreign transaction fee", "fx fee" >>

ARBITRATION_keywords ==
  << "binding arbitration", "mandatory arbitration", "arbitrate",
     "arbitration administered by", "american arbitration association",
     "aaa arbitration", "jams arbitration", "class action waiver",
     "waive your right to sue", "waive your right to a jury trial",
     "waive the right to participate in a class action",
     "waiver of class or representative actions",
     "disputes will be resolved by arbitration",
     "any dispute shall be resolved by arbitration",
     "you agree to submit to arbitration" >>

AUTO_RENEWAL_keywords ==
  << "auto-renew", "autorenew", "auto renew", "automatically renews",
     "automatic renewal", "recurring fee", "recurring charge", "recurring payment",
     "continuous subscription", "until you cancel", "continue to be billed",
     "charged on a recurring basis", "subscription will renew automatically" >>

trialKeywords ==
  << "free trial", "trial period", "trial offer", "start your trial",
     "sign up for your trial", "30-day trial", "14-day trial", "7-day trial",
     "30 day trial", "14 day trial", "7 day trial" >>

postTrialKeywords ==
  << "after your trial", "after the trial", "at the end of your trial",
     "at the end of the trial", "once the trial ends", "once your trial ends",
     "when your trial ends", "after the trial period", "after your trial period" >>

billingKeywords ==
  << "you will be charged", "you will be billed", "we will charge", "we will bill",
     "your card will be charged", "your credit card will be charged",
     "subscription will renew automatically", "renews automatically",
     "will renew automatically", "will automatically renew", "recurring subscription",
     "recurring billing", "recurring charges", "charged on a recurring basis",
     "until you cancel", "unless you cancel" >>

UNILATERAL_keywords ==
  << "we may change these terms at any time", "we may modify these terms at any time",
     "we reserve the right to modify or update these terms",
     "we may update this agreement from time to time",
     "we may amend these terms without prior notice",
     "changes will be effective when posted", "we may change this policy at any time" >>

strongFeeTerms ==
  << "resort fee", "resort fees", "facility fee", "facility fees", "amenity fee",
     "amenity fees", "destination fee", "destination fees", "property fee",
     "property fees" >>

generalFeeTerms ==
  << "service fee", "service fees", "booking fee", "booking fees", "processing fee",
     "processing fees", "handling fee", "handling fees", "convenience fee",
     "convenience fees", "cleaning fee", "cleaning fees", "extra fees", "extra fee",
     "additional fees", "additional fee", "extra charges", "extra charge",
     "additional charges", "additional charge", "mandatory fee", "mandatory fees",
     "fees not included", "taxes and fees", "before taxes and fees", "occupancy taxes",
     "occupancy tax", "tourist tax", "tourism tax", "local taxes and fees",
     "collected at property", "paid at property", "charged by the property" >>

airbnbPhrases ==
  << "airbnb service fee", "occupancy taxes and fees", "taxes may be collected",
     "taxes and fees may apply" >>


(***************************************************************************)
(* The detectors (rules.js).  Each maps the registry its script captured    *)
(* and a snapshot object to a finding, null or an exception.  The text      *)
(* fields of a snapshot are strings, numbers or absent; a number has none   *)
(* of the string methods, so the first one called on it throws.             *)
(***************************************************************************)
\* ends a detector from the outcome of findKeywordEvidence:
\*   if (!evidence.length) return null; return createRiskFromCard(...)
RiskFromEvidence(cards, ev, cardId, tags) ==
  IF ev.kind = "throw" THEN Throw
  ELSE IF Len(ev.snippets) = 0 THEN ReturnNull
  ELSE createRiskFromCard(cards, cardId, ev.snippets, tags)

REFUND_KEYWORDS_RULE(cards, snapshot) ==
  LET text == OrEmptyString(snapshot.textNormalized)
  IN IF ~Truthy(text) THEN ReturnNull
     ELSE IF text.t # "string" THEN Throw
     ELSE LET hasStrong == SomeIncluded(text.s, REFUND_strongTerms)
              hasWeak == SomeIncluded(text.s, REFUND_weakerSignals)
              raw == OrEmptyString(snapshot.textRaw)
          IN IF ~hasStrong /\ ~hasWeak THEN ReturnNull
             ELSE RiskFromEvidence(cards,
                    findKeywordEvidence(raw, IF hasStrong THEN REFUND_strongTerms
                                             ELSE REFUND_weakerSignals, 3),
                    IF hasStrong THEN "non_refundable_or_final_sale"
                    ELSE "short_refund_or_return_window",
                    <<"refunds", "cancellation">>)

REFUND_SHORT_WINDOW_RULE(cards, snapshot) ==
  LET text == OrEmptyString(snapshot.textNormalized)
  IN IF ~Truthy(text) THEN ReturnNull
     ELSE IF text.t # "string" THEN Throw
     ELSE LET raw == OrEmptyString(snapshot.textRaw)
              lower == toLowerCase(text.s)
              hasContext == SomeIncluded(lower, SHORT_WINDOW_contextKeywords)
              hasUltraShort == SomeIncluded(lower, ultraShortPhrases)
              hasShort == SomeIncluded(lower, shortPhrases)
          IN IF ~hasContext THEN ReturnNull
             ELSE IF ~hasUltraShort /\ ~hasShort THEN ReturnNull
             ELSE RiskFromEvidence(cards,
                    findKeywordEvidence(raw, IF hasUltraShort THEN ultraShortPhrases
                                             ELSE shortPhrases, 3),
                    IF hasUltraShort THEN "ultra_short_refund_window"
                    ELSE "short_refund_or_return_window",
                    <<"refunds", "cancellation",
                      IF hasUltraShort THEN "ultra_short" ELSE "short_window">>)

REFUND_DELAY_RULE(cards, snapshot) ==
  LET text == OrEmptyString(snapshot.textNormalized)
  IN IF ~Truthy(text) THEN ReturnNull
     ELSE IF text.t # "string" THEN Throw
     ELSE LET raw == OrEmptyString(snapshot.textRaw)
              lower == toLowerCase(text.s)
          IN IF ~SomeIncluded(lower, DELAY_contextKeywords) THEN ReturnNull
             ELSE IF ~SomeIncluded(lower, delayPhrases) THEN ReturnNull
             ELSE RiskFromEvidence(cards, findKeywordEvidence(raw, delayPhrases, 3),
                                   "delayed_refund_processing",
                                   <<"refunds", "delay", "cashflow">>)

\* length of the match of /(\d{1,2})\s*%/ that starts at position p, 0 if none;
\* digits is the length of the captured group
PercentDigitsAt(lower, p) ==
  IF ~IsDigitChar(CharAt(lower, p)) THEN 0
  ELSE IF /\ IsDigitChar(CharAt(lower, p + 1))
          /\ CharAt(lower, p + 2 + SpaceRun(lower, p + 2)) = "%"
       THEN 2
       ELSE IF CharAt(lower, p + 1 + SpaceRun(lower, p + 1)) = "%" THEN 1 ELSE 0

PercentMatchLen(lower, p) ==
  LET d == PercentDigitsAt(lower, p)
  IN IF d = 0 THEN 0 ELSE d + SpaceRun(lower, p + d) + 1

DigitValue(c) == (CHOOSE i \in 1..10 : CharAt(DigitChars, i) = c) - 1

\* parseInt of a string of one or two digits
parseInt(digits) ==
  IF Len(digits) = 1 THEN DigitValue(digits)
  ELSE 10 * DigitValue(CharAt(digits, 1)) + DigitValue(CharAt(digits, 2))

PercentWindowTerms == <<"refund", "refunded", "refunds", "cancel", "cancellation", "fee", "charge">>

RECURSIVE PercentCandidates(_, _, _)
\* the while loop over percentRegex.exec(lower), resumed at position from
PercentCandidates(lower, from, candidates) ==
  LET starts == { p \in from..Len(lower) : PercentMatchLen(lower, p) > 0 }
  IN IF starts = {} THEN candidates
     ELSE LET p == SetMin(starts)
              digits == slice(lower, p, p + PercentDigitsAt(lower, p) - 1)
              percentNum == parseInt(digits)
              \* idx = p - 1; lower.slice(max(0, idx - 80), min(length, idx + 80))
              windowText == slice(lower, p - 80, p - 1 + 80)
              keep == /\ percentNum > 0 /\ percentNum < 100
                      /\ SomeIncluded(windowText, PercentWindowTerms)
          IN PercentCandidates(lower, p + PercentMatchLen(lower, p),
               IF keep
               THEN Append(candidates, [percent |-> percentNum, keyword |-> digits \o "%"])
               ELSE candidates)

\* the candidate with the largest loss, the first one on a tie
ChosenCandidate(candidates) ==
  LET best == SetMin({ candidates[i].percent : i \in 1..Len(candidates) })
  IN candidates[SetMin({ i \in 1..Len(candidates) : candidates[i].percent = best })]

\* n.toLocaleString(undefined, { maximumFractionDigits: 2 }) of hundredths / 100;
\* amounts stay below 1000, where no locale inserts a grouping separator
FormatHundredths(hundredths) ==
  LET whole == hundredths \div 100
      frac == hundredths % 100
  IN IF frac = 0 THEN ToString(whole)
     ELSE IF frac % 10 = 0 THEN ToString(whole) \o "." \o ToString(frac \div 10)
     ELSE ToString(whole) \o "." \o ToString(frac \div 10) \o ToString(frac % 10)

buildExposureLine(totalAmount, lostPercent, symbol) ==
  "If your total booking is around " \o symbol \o FormatHundredths(100 * totalAmount)
    \o ", losing " \o ToString(lostPercent) \o "% means roughly " \o symbol
    \o FormatHundredths(totalAmount * lostPercent)
    \o " at risk if you cancel after this point."

\* REFUND_PERCENTAGE_EXPOSURE_RULE from "const evidence = []" on, given the
\* chosen candidate and what findKeywordEvidence handed back for its keyword
PercentageExposureRisk(cards, snapshot, chosen, snippetEvidence) ==
  LET total == snapshot.bookingTotalAmount
      symbol == IF Truthy(snapshot.bookingCurrencySymbol)
                THEN snapshot.bookingCurrencySymbol.s ELSE "$"
      exposure == IF total.t = "number" /\ total.n > 0
                  THEN <<buildExposureLine(total.n, 100 - chosen.percent, symbol)>>
                  ELSE <<>>
      evidence == snippetEvidence.snippets \o exposure
  IN IF snippetEvidence.kind = "throw" THEN Throw
     ELSE IF Len(evidence) = 0 THEN ReturnNull
     ELSE createRiskFromCard(cards, "short_refund_or_return_window", evidence,
            <<"refunds", "cancellation", "partial_refund", "percentage">>)

\* REFUND_PERCENTAGE_EXPOSURE_RULE from "if (!candidates.length)" on
PercentageExposureChoice(cards, snapshot, chosen) ==
  PercentageExposureRisk(cards, snapshot, chosen,
    findKeywordEvidence(OrEmptyString(snapshot.textRaw), <<chosen.keyword>>, 2))

REFUND_PERCENTAGE_EXPOSURE_RULE(cards, snapshot) ==
  LET text == OrEmptyString(snapshot.textNormalized)
  IN IF ~Truthy(text) THEN ReturnNull
     ELSE IF text.t # "string" THEN Throw
     ELSE IF ~SomeIncluded(toLowerCase(text.s), PERCENTAGE_contextKeywords) THEN ReturnNull
     ELSE IF Len(PercentCandidates(toLowerCase(text.s), 1, <<>>)) = 0 THEN ReturnNull
     ELSE PercentageExposureChoice(cards, snapshot,
            ChosenCandidate(PercentCandidates(toLowerCase(text.s), 1, <<>>)))

RECURSIVE DistinctUpper(_, _, _)
\* Array.from(new Set(symbols.map((s) => String(s).toUpperCase())))
DistinctUpper(symbols, i, acc) ==
  IF i > Len(symbols) THEN acc
  ELSE LET u == toUpperCase(symbols[i])
       IN DistinctUpper(symbols, i + 1,
            IF \E j \in 1..Len(acc) : acc[j] = u THEN acc ELSE Append(acc, u))

RECURSIVE join(_, _)
\* Array.prototype.join
join(xs, sep) ==
  IF Len(xs) = 0 THEN ""
  ELSE IF Len(xs) = 1 THEN xs[1]
  ELSE xs[1] \o sep \o join(Tail(xs), sep)

\* DCC_MIXED_CURRENCY_RULE from "const evidence = [" on, given the distinct
\* markers and what findKeywordEvidence handed back
CurrencyMarkupRisk(cards, distinct, ev) ==
  IF ev.kind = "throw" THEN Throw
  ELSE createRiskFromCard(cards, "dcc_or_fx_markup",
         <<"Detected currency markers: " \o join(distinct, ", ")>> \o ev.snippets,
         <<"dcc", "fx", "currency">>)

\* the currency detector without its test for conversion language
DCC_MIXED_CURRENCY_RULE_NoLanguageGate(cards, snapshot) ==
  LET textValue == OrEmptyString(snapshot.textNormalized)
  IN IF textValue.t # "string" THEN Throw
     ELSE LET text == trim(textValue.s)
              \* snapshot.currencySymbolsDetected || []
              symbols == snapshot.currencySymbolsDetected
          IN IF text = "" THEN ReturnNull
             ELSE IF symbols.t # "array" \/ Len(symbols.a) <= 1 THEN ReturnNull
             ELSE IF Len(DistinctUpper(symbols.a, 1, <<>>)) <= 1 THEN ReturnNull
             ELSE CurrencyMarkupRisk(cards, DistinctUpper(symbols.a, 1, <<>>),
                    findKeywordEvidence(OrEmptyString(snapshot.textRaw), dccPhrases, 3))

DCC_MIXED_CURRENCY_RULE(cards, snapshot) ==
  LET textValue == OrEmptyString(snapshot.textNormalized)
  IN IF textValue.t # "string" THEN Throw
     ELSE LET text == trim(textValue.s)
              \* snapshot.currencySymbolsDetected || []
              symbols == snapshot.currencySymbolsDetected
          IN IF text = "" THEN ReturnNull
             ELSE IF symbols.t # "array" \/ Len(symbols.a) <= 1 THEN ReturnNull
             ELSE IF Len(DistinctUpper(symbols.a, 1, <<>>)) <= 1 THEN ReturnNull
             ELSE IF ~SomeIncluded(text, dccPhrases) THEN ReturnNull
             ELSE CurrencyMarkupRisk(cards, DistinctUpper(symbols.a, 1, <<>>),
                    findKeywordEvidence(OrEmptyString(snapshot.textRaw), dccPhrases, 3))

\* the shape shared by the arbitration, auto-renewal and unilateral-changes
\* detectors: keywords.some(includes) on the text, evidence from the raw text
KeywordDetector(cards, snapshot, keywords, cardId, tags) ==
  LET text == OrEmptyString(snapshot.textNormalized)
  IN IF ~Truthy(text) THEN ReturnNull
     ELSE IF text.t # "string" THEN Throw
     ELSE IF ~SomeIncluded(text.s, keywords) THEN ReturnNull
     ELSE RiskFromEvidence(cards,
            findKeywordEvidence(OrEmptyString(snapshot.textRaw), keywords, 3), cardId, tags)

\* the arbitration detector asking for the class-action card
ARBITRATION_CLAUSE_RULE_ClassActionCard(cards, snapshot) ==
  KeywordDetector(cards, snapshot, ARBITRATION_keywords, "class_action_waiver",
                  <<"arbitration", "dispute_resolution">>)

ARBITRATION_CLAUSE_RULE(cards, snapshot) ==
  KeywordDetector(cards, snapshot, ARBITRATION_keywords, "mandatory_arbitration",
                  <<"arbitration", "dispute_resolution">>)

AUTO_RENEWAL_RULE(cards, snapshot) ==
  KeywordDetector(cards, snapshot, AUTO_RENEWAL_keywords, "auto_renewing_subscription",
                  <<"subscription", "auto_renew">>)

TRIAL_AUTO_RENEW_RULE(cards, snapshot) ==
  LET text == OrEmptyString(snapshot.textNormalized)
  IN IF ~Truthy(text) THEN ReturnNull
     ELSE IF text.t # "string" THEN Throw
     ELSE LET raw == OrEmptyString(snapshot.textRaw)
              lower == toLowerCase(text.s)
              hasPostTrial == SomeIncluded(lower, postTrialKeywords)
              hasBilling == SomeIncluded(lower, billingKeywords)
          IN IF ~SomeIncluded(lower, trialKeywords) THEN ReturnNull
             ELSE IF ~hasPostTrial /\ ~hasBilling THEN ReturnNull
             ELSE RiskFromEvidence(cards,
                    findKeywordEvidence(raw, trialKeywords \o postTrialKeywords \o billingKeywords, 3),
                    "trial_converts_to_paid_subscription",
                    <<"trial", "subscription", "auto_renew">>)

UNILATERAL_CHANGES_RULE(cards, snapshot) ==
  KeywordDetector(cards, snapshot, UNILATERAL_keywords, "unilateral_terms_changes",
                  <<"unilateral_changes", "terms_updates">>)

ResortFeeEvidence ==
  "Nightly rate may not include resort or facility fees that are collected separately at the property."
ExtraFeesEvidence ==
  "The displayed price may exclude taxes, cleaning fees, or other mandatory charges that are added at checkout or collected at the property."

\* the fee detector choosing the general card whenever general fee terms appear
HIDDEN_FEES_RULE_GeneralFirst(cards, snapshot) ==
  LET text == OrEmptyString(snapshot.textNormalized)
  IN IF ~Truthy(text) THEN ReturnNull
     ELSE IF text.t # "string" THEN Throw
     ELSE LET url == OrEmptyString(snapshot.url)
              lower == toLowerCase(text.s)
              hasStrong == SomeIncluded(lower, strongFeeTerms)
              hasGeneral0 == SomeIncluded(lower, generalFeeTerms)
              urlRead == ~hasStrong /\ ~hasGeneral0
              hasGeneral == IF urlRead /\ url.t = "string" /\ includes(toLowerCase(url.s), "airbnb.")
                            THEN SomeIncluded(lower, airbnbPhrases) ELSE hasGeneral0
          IN IF urlRead /\ url.t # "string" THEN Throw
             ELSE IF ~hasStrong /\ ~hasGeneral THEN ReturnNull
             ELSE IF hasGeneral
             THEN createRiskFromCard(cards, "extra_fees_not_in_base_price", <<ExtraFeesEvidence>>,
                                     <<"fees", "pricing">>)
             ELSE createRiskFromCard(cards, "resort_or_facility_fee", <<ResortFeeEvidence>>,
                                     <<"fees", "pricing">>)

HIDDEN_FEES_RULE(cards, snapshot) ==
  LET text == OrEmptyString(snapshot.textNormalized)
  IN IF ~Truthy(text) THEN ReturnNull
     ELSE IF text.t # "string" THEN Throw
     ELSE LET url == OrEmptyString(snapshot.url)
              lower == toLowerCase(text.s)
              hasStrong == SomeIncluded(lower, strongFeeTerms)
              hasGeneral0 == SomeIncluded(lower, generalFeeTerms)
              \* url.toLowerCase() is reached only when neither list matched
              urlRead == ~hasStrong /\ ~hasGeneral0
              hasGeneral == IF urlRead /\ url.t = "string" /\ includes(toLowerCase(url.s), "airbnb.")
                            THEN SomeIncluded(lower, airbnbPhrases) ELSE hasGeneral0
          IN IF urlRead /\ url.t # "string" THEN Throw
             ELSE IF ~hasStrong /\ ~hasGeneral THEN ReturnNull
             ELSE IF hasStrong
             THEN createRiskFromCard(cards, "resort_or_facility_fee", <<ResortFeeEvidence>>,
                                     <<"fees", "pricing">>)
             ELSE createRiskFromCard(cards, "extra_fees_not_in_base_price", <<ExtraFeesEvidence>>,
                                     <<"fees", "pricing">>)

(***************************************************************************)
(* The catalog and evaluateAll                                              *)
(***************************************************************************)
ALL_RULES ==
  << "refund_keywords_basic", "refund_short_window_time_based",
     "refund_delay_processing_basic", "refund_percentage_exposure",
     "dcc_mixed_currency_basic", "arbitration_clause_basic", "auto_renewal_basic",
     "trial_auto_renew_basic", "unilateral_changes_basic", "hidden_fees_basic" >>

\* rule.evaluate(snapshot) of the rule with the given id
RuleEvaluate(ruleId, cards, snapshot) ==
  CASE ruleId = "refund_keywords_basic" -> REFUND_KEYWORDS_RULE(cards, snapshot)
    [] ruleId = "refund_short_window_time_based" -> REFUND_SHORT_WINDOW_RULE(cards, snapshot)
    [] ruleId = "refund_delay_processing_basic" -> REFUND_DELAY_RULE(cards, snapshot)
    [] ruleId = "refund_percentage_exposure" -> REFUND_PERCENTAGE_EXPOSURE_RULE(cards, snapshot)
    [] ruleId = "dcc_mixed_currency_basic" -> DCC_MIXED_CURRENCY_RULE(cards, snapshot)
    [] ruleId = "arbitration_clause_basic" -> ARBITRATION_CLAUSE_RULE(cards, snapshot)
    [] ruleId = "auto_renewal_basic" -> AUTO_RENEWAL_RULE(cards, snapshot)
    [] ruleId = "trial_auto_renew_basic" -> TRIAL_AUTO_RENEW_RULE(cards, snapshot)
    [] ruleId = "unilateral_changes_basic" -> UNILATERAL_CHANGES_RULE(cards, snapshot)
    [] OTHER -> HIDDEN_FEES_RULE(cards, snapshot)

\* if (result) risks.push(result)
PushResult(risks, result) ==
  IF result.kind = "risk" THEN Append(risks, result.risk) ELSE risks

\* the loop of evaluateAll without its try/catch: the first exception ends the scan
RECURSIVE EvaluateLoop_NoTryCatch(_, _, _, _)
EvaluateLoop_NoTryCatch(cards, snapshot, i, risks) ==
  IF i > Len(ALL_RULES) THEN [threw |-> FALSE, risks |-> risks]
  ELSE LET result == RuleEvaluate(ALL_RULES[i], cards, snapshot)
       IN IF result.kind = "throw" THEN [threw |-> TRUE, risks |-> <<>>]
          ELSE EvaluateLoop_NoTryCatch(cards, snapshot, i + 1,
                 IF result.kind = "risk" THEN Append(risks, result.risk) ELSE risks)

RECURSIVE EvaluateLoop(_, _, _, _)
\* the for loop of evaluateAll from rule i on; the catch clause only logs
EvaluateLoop(cards, snapshot, i, risks) ==
  IF i > Len(ALL_RULES) THEN [threw |-> FALSE, risks |-> risks]
  ELSE EvaluateLoop(cards, snapshot, i + 1,
         PushResult(risks, RuleEvaluate(ALL_RULES[i], cards, snapshot)))

evaluateAll(cards, snapshot) == EvaluateLoop(cards, snapshot, 1, <<>>)

(***************************************************************************)
(* Scoring helpers of riskModel.js                                          *)
(***************************************************************************)
CategorySet == { CATEGORIES[i] : i \in 1..Len(CATEGORIES) }
ZeroScores == [c \in CategorySet |-> 0]

severityToScore(sev) ==
  CASE sev = "high" -> 80
    [] sev = "med" -> 50
    [] sev = "low" -> 25
    [] OTHER -> 0

RECURSIVE CategoryScoresLoop(_, _, _)
\* the for loop of computeCategoryScores from risk i on
CategoryScoresLoop(risks, i, base) ==
  IF i > Len(risks) THEN base
  ELSE LET r == risks[i]
           s == severityToScore(r.severity)
       IN CategoryScoresLoop(risks, i + 1,
            IF r.category = "" \/ r.severity = "" THEN base
            ELSE IF r.category \in CategorySet /\ s > base[r.category]
            THEN [base EXCEPT ![r.category] = s] ELSE base)

computeCategoryScores(risks) == CategoryScoresLoop(risks, 1, ZeroScores)

RECURSIVE MathMax(_, _, _)
\* Math.max.apply(null, values) over Object.values in key order
MathMax(scores, i, acc) ==
  IF i > Len(CATEGORIES) THEN acc
  ELSE MathMax(scores, i + 1,
         IF scores[CATEGORIES[i]] > acc THEN scores[CATEGORIES[i]] ELSE acc)

computeGlobalRiskScore(categoryScores) ==
  MathMax(categoryScores, 2, categoryScores[CATEGORIES[1]])

LoginPatterns == <<"/login", "/signin", "/sign-in", "/auth", "/register", "/signup">>

\* classifyPageMode that looks for the login patterns in the URL as written
classifyPageMode_CaseSensitive(url, textLength) ==
  LET u == OrEmptyString(url)
  IN IF u.t # "string" THEN "throw"
     ELSE IF SomeIncluded(u.s, LoginPatterns) THEN "auth"
     ELSE IF textLength.t = "number" /\ textLength.n < 800 THEN "low-content"
     ELSE "content-rich"

\* classifyPageMode without the low-content outcome
classifyPageMode_NoLowContent(url, textLength) ==
  LET u == OrEmptyString(url)
  IN IF u.t # "string" THEN "throw"
     ELSE IF SomeIncluded(toLowerCase(u.s), LoginPatterns) THEN "auth"
     ELSE "content-rich"

\* classifyPageMode(url, textLength): url is a JavaScript value, textLength a
\* number or undefined; (url || "").toLowerCase() throws on a truthy non-string
classifyPageMode(url, textLength) ==
  LET u == OrEmptyString(url)
  IN IF u.t # "string" THEN "throw"
     ELSE IF SomeIncluded(toLowerCase(u.s), LoginPatterns) THEN "auth"
     ELSE IF textLength.t = "number" /\ textLength.n < 800 THEN "low-content"
     ELSE "content-rich"

\* computeHasMeaningfulContent that decides an auth page by its length
computeHasMeaningfulContent_LengthOnly(pageMode, textLength) ==
  IF pageMode = "content-rich" THEN TRUE
  ELSE textLength.t = "number" /\ textLength.n >= 600

computeHasMeaningfulContent(pageMode, textLength) ==
  IF pageMode = "content-rich" THEN TRUE
  ELSE IF pageMode = "auth" THEN FALSE
  ELSE textLength.t = "number" /\ textLength.n >= 600

AUTO_POPUP_SCORE_THRESHOLD == 50

hasAutoPopupWorthyRisk(risks) == \E i \in 1..Len(risks) : risks[i].autoPopupWorthy

\* shouldAutoPopup that asks for the score and a finding, whatever its card
shouldAutoPopup_ScoreOnly(analysisResult, context) ==
  LET isAuthOrLowContent ==
        context.pageMode = "auth" \/ ~analysisResult.hasMeaningfulContent
      hasRealRisk ==
        /\ analysisResult.riskScore >= AUTO_POPUP_SCORE_THRESHOLD
        /\ Len(analysisResult.risks) > 0
  IN IF isAuthOrLowContent THEN FALSE
     ELSE IF ~hasRealRisk THEN FALSE
     ELSE TRUE

\* shouldAutoPopup that does not look at hasMeaningfulContent
shouldAutoPopup_IgnoresContent(analysisResult, context) ==
  LET hasRealRisk ==
        /\ analysisResult.riskScore >= AUTO_POPUP_SCORE_THRESHOLD
        /\ Len(analysisResult.risks) > 0
        /\ hasAutoPopupWorthyRisk(analysisResult.risks)
  IN IF context.pageMode = "auth" THEN FALSE
     ELSE IF ~hasRealRisk THEN FALSE
     ELSE TRUE

shouldAutoPopup(analysisResult, context) ==
  LET isAuthOrLowContent ==
        context.pageMode = "auth" \/ ~analysisResult.hasMeaningfulContent
      hasRealRisk ==
        /\ analysisResult.riskScore >= AUTO_POPUP_SCORE_THRESHOLD
        /\ Len(analysisResult.risks) > 0
        /\ hasAutoPopupWorthyRisk(analysisResult.risks)
  IN IF isAuthOrLowContent THEN FALSE
     ELSE IF ~hasRealRisk THEN FALSE
     ELSE TRUE

(***************************************************************************)
(* riskEngine.js                                                            *)
(***************************************************************************)
\* every finding of the catalog carries the numeric severityScore that
\* createRiskFromCard sets, so the branch on the severity string is not taken
severityToPointsFromRisk(risk) ==
  IF risk.severityScore >= 3 THEN 80
  ELSE IF risk.severityScore >= 2 THEN 50
  ELSE IF risk.severityScore >= 1 THEN 25
  ELSE 0

RECURSIVE CategoryScoresLocalLoop(_, _, _)
CategoryScoresLocalLoop(risks, i, scores) ==
  IF i > Len(risks) THEN scores
  ELSE LET r == risks[i]
           cat == IF r.category = "" THEN "financial" ELSE r.category
           points == severityToPointsFromRisk(r)
       IN CategoryScoresLocalLoop(risks, i + 1,
            IF cat \in CategorySet /\ points > scores[cat]
            THEN [scores EXCEPT ![cat] = points] ELSE scores)

computeCategoryScoresLocal(risks) == CategoryScoresLocalLoop(risks, 1, ZeroScores)

\* a global score that reads the first category only
computeGlobalRiskScoreLocal_FirstCategory(categoryScores) == categoryScores[CATEGORIES[1]]

computeGlobalRiskScoreLocal(categoryScores) ==
  MathMax(categoryScores, 2, categoryScores[CATEGORIES[1]])

\* computeOverallLevel with the HIGH threshold moved above 80
computeOverallLevel_HighAbove80(riskScore) ==
  IF riskScore > 80 THEN "HIGH"
  ELSE IF riskScore >= 40 THEN "MEDIUM"
  ELSE "LOW"

computeOverallLevel(riskScore) ==
  IF riskScore >= 70 THEN "HIGH"
  ELSE IF riskScore >= 40 THEN "MEDIUM"
  ELSE IF riskScore > 0 THEN "LOW"
  ELSE "LOW"

\* window.location.href of the page the engine is loaded in, and of a login
\* page the same document can move to (history.pushState)
LocationHref == "https://example.com/page"
LoginHref == "https://example.com/login"

\* String(v) of a snapshot field
ToJsString(v) == IF v.t = "string" THEN v.s ELSE IF v.t = "number" THEN ToString(v.n) ELSE ""

\* rawText.length: a number has no length
LengthOf(v) == IF v.t = "string" THEN JsNumber(Len(v.s)) ELSE JsUndefined

\* computePageContextAndContent(snapshot) with the RiskModel the engine
\* captured: "full" (riskModel.js), "stub" (the test harness: classifyPageMode
\* and computeHasMeaningfulContent are constant functions) or "undefined";
\* href is window.location.href at the time of the call
computePageContextAndContent(riskModel, href, snapshot) ==
  LET rawText == IF Truthy(snapshot.textRaw) THEN snapshot.textRaw
                 ELSE OrEmptyString(snapshot.textNormalized)
      url == IF Truthy(snapshot.url) THEN snapshot.url ELSE JsString(href)
      textLength == LengthOf(rawText)
      lower == toLowerCase(ToJsString(url))
      pageMode ==
        CASE riskModel = "full" -> classifyPageMode(url, textLength)
          [] riskModel = "stub" -> "content-rich"
          [] OTHER ->
               IF SomeIncluded(lower, LoginPatterns) THEN "auth"
               ELSE IF textLength.t = "number" /\ textLength.n < 800 THEN "low-content"
               ELSE "content-rich"
      hasMeaningfulContent ==
        CASE riskModel = "full" -> computeHasMeaningfulContent(pageMode, textLength)
          [] riskModel = "stub" -> TRUE
          [] OTHER ->
               IF pageMode = "content-rich" THEN TRUE
               ELSE (textLength.t = "number" /\ textLength.n >= 600) /\ pageMode # "auth"
  IN IF pageMode = "throw"
     THEN [threw |-> TRUE, pageMode |-> "", hasMeaningfulContent |-> FALSE]
     ELSE [threw |-> FALSE, pageMode |-> pageMode, hasMeaningfulContent |-> hasMeaningfulContent]

EmptyObject ==
  [t |-> "object", url |-> JsUndefined, textRaw |-> JsUndefined,
   textNormalized |-> JsUndefined, currencySymbolsDetected |-> JsUndefined,
   bookingTotalAmount |-> JsUndefined, bookingCurrencySymbol |-> JsUndefined]

\* what the try block of evaluatePage got from Rules.evaluateAll
NoScan == [threw |-> FALSE, risks |-> <<>>]

NoResult ==
  [risks |-> <<>>, categoryScores |-> ZeroScores, riskScore |-> 0, overallLevel |-> "",
   hasMeaningfulContent |-> FALSE, pageMode |-> "", overallScore |-> 0]

\* steps 2 to 4 of evaluatePage, given what the try block of step 1 got from
\* Rules.evaluateAll (ran) and what computePageContextAndContent returns (page)
ScoreAndDescribe(riskModel, ran, page) ==
  LET risks == IF ran.threw THEN <<>> ELSE ran.risks
      categoryScores == IF riskModel = "full" THEN computeCategoryScores(risks)
                        ELSE computeCategoryScoresLocal(risks)
      riskScore == IF riskModel = "full" THEN computeGlobalRiskScore(categoryScores)
                   ELSE computeGlobalRiskScoreLocal(categoryScores)
  IN IF page.threw THEN [threw |-> TRUE, scan |-> ran, result |-> NoResult]
     ELSE [threw |-> FALSE,
           scan |-> ran,
           result |-> [risks |-> risks,
                       categoryScores |-> categoryScores,
                       riskScore |-> riskScore,
                       overallLevel |-> computeOverallLevel(riskScore),
                       hasMeaningfulContent |-> page.hasMeaningfulContent,
                       pageMode |-> page.pageMode,
                       overallScore |-> riskScore]]

\* evaluatePage from step 1 on, safeSnapshot being the snapshot or {}
EvaluateSafeSnapshot(riskModel, rules, href, safeSnapshot) ==
  ScoreAndDescribe(riskModel,
    IF rules = "null" THEN NoScan ELSE evaluateAll(CardsOf(rules), safeSnapshot),
    computePageContextAndContent(riskModel, href, safeSnapshot))

\* evaluatePage(snapshot) of an engine that captured RiskModel riskModel and a
\* Rules object whose registry is rules ("null" when it captured no Rules),
\* called while window.location.href is href
evaluatePage(riskModel, rules, href, snapshot) ==
  EvaluateSafeSnapshot(riskModel, rules, href,
    IF snapshot.t = "object" THEN snapshot ELSE EmptyObject)

(***************************************************************************)
(* Snapshots handed to the engine                                           *)
(***************************************************************************)
Snapshot(url, textRaw, textNormalized, currencySymbolsDetected, bookingTotalAmount) ==
  [t |-> "object", url |-> url, textRaw |-> textRaw, textNormalized |-> textNormalized,
   currencySymbolsDetected |-> currencySymbolsDetected,
   bookingTotalAmount |-> bookingTotalAmount, bookingCurrencySymbol |-> JsUndefined]

\* the snapshot scanner.js builds from the page text (buildSnapshot)
PageSnapshot(url, rawText, markers) ==
  Snapshot(JsString(url), JsString(rawText), JsString(toLowerCase(rawText)), markers, JsUndefined)

\* a value passed to evaluatePage that is not an object
NonObject(type) == [EmptyObject EXCEPT !.t = type]

Filler == "Our company provides a wide range of travel services to customers around the world every day. "

T_PLAIN == "Welcome to our homepage! Explore destinations, browse photos, and learn more."
T_NONREF == "This booking is strictly NON-REFUNDABLE and cannot be cancelled."
T_ARB == "Any dispute shall be resolved by binding arbitration and you waive your right to a jury trial."
T_DCC == "Dynamic Currency Conversion will apply and a currency conversion fee may be charged."
T_FEE == "A service fee may apply."
T_RESORT == "A daily resort fee is charged by the property."
T_TERMS == "We may change these terms at any time."
T_TRIAL == "Start your free trial today. After your trial you will be charged monthly."
T_24H == "You may cancel within 24 hours of booking for a full refund."
T_7DAY == "You may cancel within 7 days of purchase for a full refund."
T_DELAY == "Refunds may take up to 60 days to process."
T_PCT == "You will receive a 50% refund if you cancel after this date."
T_RENEW == "Your subscription automatically renews until you cancel."
T_AIRBNB == "Taxes may be collected at checkout."
T_RISKY == "This booking is strictly NON-REFUNDABLE. Service fee may apply. We apply our own exchange rate via dynamic currency conversion."
T_NOCONTEXT == "Delivery is made within 7 days of purchase."
T_LONG == Repeat(Filler, FillerRepeats) \o T_NONREF
\* between the two length thresholds of the page classifier
T_MID == Repeat(Filler, FillerRepeats - 2)

PageTexts ==
  { "", T_PLAIN, T_NONREF, T_ARB, T_FEE, T_RESORT, T_TERMS, T_TRIAL, T_24H, T_7DAY,
    T_DELAY, T_PCT, T_RENEW, T_ARB \o " " \o T_FEE, T_TERMS \o " " \o T_TRIAL, T_LONG,
    T_MID, T_NOCONTEXT, T_24H \o " " \o T_7DAY }

BookingUrl == "https://example.com/booking"
LoginUrl == "https://example.com/Login"
SignupUrl == "https://example.com/account/signup?next=home"
AirbnbUrl == "https://www.airbnb.com/rooms/1"

MarkerLists ==
  { JsUndefined, JsArray(<<"USD">>), JsArray(<<"USD", "CAD">>), JsArray(<<"usd", "USD">>),
    JsString("USD,CAD") }

Snapshots ==
  \* pages as the scanner builds them
  { PageSnapshot(BookingUrl, text, JsUndefined) : text \in PageTexts }
  \cup { PageSnapshot(BookingUrl, text, markers) :
           text \in {T_DCC, T_PLAIN}, markers \in MarkerLists }
  \cup { PageSnapshot(BookingUrl, T_RISKY, JsArray(<<"$", "USD">>)),
         PageSnapshot(LoginUrl, T_NONREF, JsUndefined),
         PageSnapshot(LoginUrl, "", JsUndefined),
         PageSnapshot(LoginUrl, T_LONG, JsUndefined),
         PageSnapshot(SignupUrl, T_MID, JsUndefined),
         PageSnapshot(AirbnbUrl, T_AIRBNB, JsUndefined),
         PageSnapshot(BookingUrl, T_AIRBNB, JsUndefined) }
  \* snapshots of other callers: fields absent, of the wrong type, or at odds
  \cup { NonObject("null"), NonObject("undefined"), NonObject("number"), NonObject("string"),
         EmptyObject,
         Snapshot(JsUndefined, JsString(T_NONREF), JsString(toLowerCase(T_NONREF)),
                  JsUndefined, JsUndefined),
         Snapshot(JsNumber(123), JsString(T_NONREF), JsString(toLowerCase(T_NONREF)),
                  JsUndefined, JsUndefined),
         Snapshot(JsNumber(123), JsUndefined, JsUndefined, JsUndefined, JsUndefined),
         Snapshot(JsString(BookingUrl), JsNumber(7), JsString(toLowerCase(T_ARB \o " " \o T_FEE)),
                  JsUndefined, JsUndefined),
         Snapshot(JsString(BookingUrl), JsString(T_NONREF), JsNumber(7),
                  JsUndefined, JsUndefined),
         Snapshot(JsString(BookingUrl), JsNumber(7), JsNumber(7), JsUndefined, JsUndefined),
         Snapshot(JsString(BookingUrl), JsUndefined, JsString(toLowerCase(T_NONREF)),
                  JsUndefined, JsUndefined),
         Snapshot(JsString(BookingUrl), JsString(T_PLAIN), JsString(toLowerCase(T_ARB)),
                  JsUndefined, JsUndefined),
         Snapshot(JsString(BookingUrl), JsString(T_PCT), JsString(toLowerCase(T_PCT)),
                  JsUndefined, JsNumber(200)),
         Snapshot(JsString(BookingUrl), JsUndefined, JsString(toLowerCase(T_PCT)),
                  JsUndefined, JsNumber(200)) }

\* the snapshots a caller evaluates again and again while the page moves
RepeatSnapshots ==
  { PageSnapshot(BookingUrl, T_NONREF, JsUndefined),
    PageSnapshot(LoginUrl, T_ARB, JsUndefined),
    Snapshot(JsUndefined, JsString(T_NONREF), JsString(toLowerCase(T_NONREF)),
             JsUndefined, JsUndefined),
    Snapshot(JsUndefined, JsString(T_MID), JsString(toLowerCase(T_MID)),
             JsUndefined, JsUndefined),
    EmptyObject,
    NonObject("undefined") }

LocationHrefs == { LocationHref, LoginHref }

(***************************************************************************)
(* Arguments of findKeywordEvidence                                         *)
(***************************************************************************)
E_CASES == "No refund here. A refund is possible! NO REFUND HERE. Fees apply? no refunds at all."
E_TWICE == "Refund after refund is denied.\nAsk   for a  refund\ttoday"
E_LONGSENTENCE == Repeat("terms and conditions apply and ", 8) \o "no refund is given. Fees apply."
E_ARTIFACT == "Scribbit Multi-Risk Test Terms. Scribbit refund policy applies. Fees: rail risk (1/3)"

EvidenceTexts ==
  { JsUndefined, JsString(""), JsString(T_PLAIN), JsString(E_CASES), JsString(E_TWICE),
    JsString(E_LONGSENTENCE), JsString(E_ARTIFACT) }

EvidenceKeywordLists ==
  { <<>>, <<"refund", "fees">>, <<"fees", "refund">>, <<"no refund", "refund", "apply">>,
    <<"REFUND">>, <<"scribbit", "rail risk", "fees">> }

(***************************************************************************)
(* Findings and results handed to the auto-popup decision                   *)
(***************************************************************************)
PopupCardIds ==
  { "non_refundable_or_final_sale", "extra_fees_not_in_base_price",
    "unilateral_terms_changes", "taxes_not_included" }

PopupRisks ==
  { createRiskFromCard(RISK_CARDS, id, <<"evidence">>, <<>>).risk : id \in PopupCardIds }

PopupRiskLists ==
  UNION { [1..n -> PopupRisks] : n \in 0..MaxPopupRisks }

PageModes == {"auth", "low-content", "content-rich"}

AnalysisResults ==
  { [risks |-> risks, riskScore |-> riskScore, hasMeaningfulContent |-> meaningful] :
      risks \in PopupRiskLists, riskScore \in {0, 25, 50, 80}, meaningful \in BOOLEAN }

(***************************************************************************)
(* The on-page panel: ui/panel.js, its Panel 2.0 rewrite and the earlier    *)
(* mini-mode version.  The panel is its script, the flags                   *)
(* panelManuallyHidden and panelModeInitialized, the style.display of its   *)
(* element ("absent" while the element does not exist) and whether the      *)
(* chrome.storage read of loadDomainPanelState is still outstanding.  The   *)
(* results it is given here are canonical: risks is an array and            *)
(* hasMeaningfulContent a boolean, so normalizeRiskResult hands them back   *)
(* unchanged.  The page has a hostname and chrome.storage.local.            *)
(***************************************************************************)
PanelScripts == {"panel.js", "panel 2.0", "panel mini mode"}

\* if (existingPanel) existingPanel.style.display = "none"; return
HidePanel(p) ==
  [p EXCEPT !.display = IF p.display = "absent" THEN "absent" ELSE "none", !.updated = TRUE]

\* existingPanel || createPanelShell(), filled in and set to display "block"
ShowPanel(p) == [p EXCEPT !.display = "block", !.updated = TRUE]

\* applyInitialPanelMode: the first call starts the chrome.storage read of
\* loadDomainPanelState, later calls re-apply currentPanelMode at once
applyInitialPanelMode(p) ==
  IF p.panelModeInitialized THEN p
  ELSE [p EXCEPT !.panelModeInitialized = TRUE, !.loading = TRUE,
                 !.currentPanelMode = IF p.script = "panel 2.0" THEN "mini" ELSE @]

\* togglePanelMode: the click handler of the panel header
togglePanelMode(p) ==
  [p EXCEPT !.currentPanelMode = IF @ = "mini" THEN "full" ELSE "mini"]

\* what loadDomainPanelState calls back with: the stored mode of the hostname,
\* "null" when there is none
LoadedModes == {"null", "mini", "full"}

\* updatePanel of panel.js from injectStylesheet() on: the element is created
\* hidden, and shown by the onReady callback of applyInitialPanelMode
FillThenShowPanel(p) ==
  IF p.panelModeInitialized THEN ShowPanel(p)
  ELSE applyInitialPanelMode(
         [p EXCEPT !.display = IF @ = "absent" THEN "none" ELSE @, !.updated = TRUE])

\* updatePanel of panel.js
updatePanel(p, riskResult) ==
  IF p.panelManuallyHidden THEN HidePanel(p)
  ELSE IF Len(riskResult.risks) = 0 THEN HidePanel(p)
  ELSE FillThenShowPanel(p)

\* updatePanel of Panel 2.0
updatePanelV2(p, riskResult) ==
  IF p.panelManuallyHidden THEN HidePanel(p)
  ELSE IF ~riskResult.hasMeaningfulContent /\ Len(riskResult.risks) = 0 THEN HidePanel(p)
  ELSE applyInitialPanelMode(ShowPanel(p))

\* updatePanel of the mini-mode version
updatePanelV1(p, riskResult) ==
  IF p.panelManuallyHidden THEN HidePanel(p)
  ELSE IF Len(riskResult.risks) = 0 THEN HidePanel(p)
  ELSE applyInitialPanelMode(ShowPanel(p))

\* the callback loadDomainPanelState was given: setPanelMode, and in panel.js
\* onReady, which sets the display of the element to "block"
PanelModeCallback(p, mode) ==
  [p EXCEPT !.loading = FALSE,
            !.currentPanelMode =
               IF mode \in {"mini", "full"} THEN mode
               ELSE IF p.script = "panel.js" THEN "mini"
               ELSE IF p.script = "panel 2.0" THEN @
               ELSE "full",
            !.display = IF p.script = "panel.js" THEN "block" ELSE @]

\* the results the messaging layer hands to the panel
PanelPayloads ==
  { [risks |-> risks, riskScore |-> IF Len(risks) = 0 THEN 0 ELSE 80,
     hasMeaningfulContent |-> meaningful] :
      risks \in { r \in PopupRiskLists : Len(r) <= 1 /\ \A i \in 1..Len(r) : r[i].severity = "HIGH" },
      meaningful \in BOOLEAN }

(***************************************************************************)
(* The page scanner (scanner.js): which pages it scans, and when.  Time is  *)
(* counted in periods of its URL watcher, from the moment the scanner       *)
(* starts its first timer; document.body exists and the MutationObserver    *)
(* constructor does not throw.                                              *)
(***************************************************************************)
SPA_URL_CHECK_INTERVAL_MS == 500
\* delay of the throttled re-scan a DOM mutation asks for
MUTATION_SCAN_DELAY_MS == 500
\* how long startDynamicObserver means to keep its observer connected
OBSERVER_LIFETIME_MS == 5000

Ticks(ms) == ms \div SPA_URL_CHECK_INTERVAL_MS

SEARCH_ENGINE_HOSTS ==
  { "www.google.com", "google.com", "www.bing.com", "bing.com", "search.yahoo.com",
    "duckduckgo.com", "www.duckduckgo.com" }

BLOCKED_DOMAINS ==
  { "mail.google.com", "inbox.google.com", "outlook.live.com", "outlook.office.com",
    "mail.yahoo.com", "mail.aol.com", "docs.google.com", "drive.google.com",
    "onedrive.live.com", "www.dropbox.com", "teams.microsoft.com", "slack.com",
    "app.slack.com", "notion.so", "www.notion.so" }

EXPEDIA_FAMILY ==
  { "expedia.com", "expedia.ca", "expedia.co.uk", "expedia.com.au", "hotels.com",
    "hotwire.com", "orbitz.com", "travelocity.com", "ebookers.com", "wotif.com",
    "cheaptickets.com" }

META_SEARCH_FAMILY ==
  { "kayak.com", "kayak.ca", "kayak.co.uk", "skyscanner.com", "skyscanner.ca",
    "momondo.com", "momondo.ca", "trivago.com", "trivago.ca", "tripadvisor.com",
    "tripadvisor.ca", "agoda.com", "agoda.ca" }

HOTEL_BRANDS ==
  { "marriott.com", "hilton.com", "ihg.com", "hyatt.com", "accor.com", "choicehotels.com",
    "bestwestern.com", "wyndhamhotels.com", "radissonhotels.com", "shangri-la.com",
    "fourseasons.com", "ryanairrooms.com" }

AIRLINES ==
  { "delta.com", "aa.com", "united.com", "southwest.com", "alaskaair.com", "westjet.com",
    "aircanada.com", "lufthansa.com", "ba.com", "britishairways.com", "ryanair.com",
    "easyjet.com", "jetblue.com", "spirit.com", "frontierairlines.com", "qantas.com",
    "emirates.com", "qatarairways.com", "etihad.com", "singaporeair.com" }

CAR_RENTAL ==
  { "hertz.com", "avis.com", "budget.com", "enterprise.com", "alamo.com",
    "nationalcar.com", "sixt.com", "easirent.com", "thrifty.com", "dollar.com" }

CRUISES ==
  { "carnival.com", "royalcaribbean.com", "norwegiancruiseline.com", "ncl.com",
    "celebritycruises.com", "princess.com", "hollandamerica.com" }

REGIONAL_TRAVEL ==
  { "tui.com", "tui.co.uk", "vacationstogo.com", "lastminute.com", "travelzoo.com",
    "holidaylettings.co.uk", "agriturismo.it", "homeaway.co.uk", "fewo-direkt.de",
    "stayz.com.au" }

\* String.prototype.endsWith / startsWith
endsWith(s, suffix) ==
  Len(s) >= Len(suffix) /\ SubSeq(s, Len(s) - Len(suffix) + 1, Len(s)) = suffix

startsWith(s, prefix) == Len(s) >= Len(prefix) /\ SubSeq(s, 1, Len(prefix)) = prefix

isSearchEngineHost(hostname) == hostname \in SEARCH_ENGINE_HOSTS

isBlockedDomain(hostname) ==
  /\ hostname # ""
  /\ \E blocked \in BLOCKED_DOMAINS : hostname = blocked \/ endsWith(hostname, "." \o blocked)

\* one "if (host ...) { if (urlContainsAny([...])) return true; }" of
\* isSearchResultsPage: how the host is tested, against which names, the
\* substrings looked for in the URL, and the substring that spares the URL
SearchFamily(hostTest, hosts, substrings, unless) ==
  [hostTest |-> hostTest, hosts |-> hosts, substrings |-> substrings, unless |-> unless]

SEARCH_RESULTS_FAMILIES ==
  << SearchFamily("endsWith", {"booking.com"},
                  <<"/searchresults", "searchresults.html">>, ""),
     SearchFamily("endsWith", {"airbnb.com", "airbnb.ca"},
                  <<"/s/", "/homes", "/stays", "/wishlists">>, "/rooms/"),
     SearchFamily("endsWith", {"vrbo.com", "homeaway.com"},
                  <<"/search/", "/search-results", "Search.mvc">>, ""),
     SearchFamily("domain", EXPEDIA_FAMILY,
                  <<"/Hotel-Search", "/hotel/search", "/Flights-Search", "/flight/search",
                    "/Car-Search", "/car/search", "/Vacation-Rentals-Search",
                    "/VacationPackages-Search", "/Packages-Search">>, ""),
     SearchFamily("domain", META_SEARCH_FAMILY,
                  <<"/flights/", "/flightsearch", "/hotels/", "/hotels-search", "/cars/",
                    "/carsearch", "/packages", "/vacation-rentals", "/searchresults",
                    "/search/">>, ""),
     SearchFamily("domain", HOTEL_BRANDS,
                  <<"/search", "/reservation/find", "/find-reservation", "/hotels/search">>, ""),
     SearchFamily("domain", AIRLINES,
                  <<"/flight-search", "/book/flights", "/book/flight", "/flights-search",
                    "/search/results", "/fares/search">>, ""),
     SearchFamily("domain", CAR_RENTAL,
                  <<"/car-rental", "/carsearch", "/car/search", "/search", "/locations">>, ""),
     SearchFamily("domain", CRUISES,
                  <<"/cruise-search", "/search-cruise", "/search-results", "/itineraries">>, ""),
     SearchFamily("domain", REGIONAL_TRAVEL,
                  <<"/search", "/searchresults", "/results", "/holidays", "/villas",
                    "/farmhouses">>, ""),
     SearchFamily("startsWith", {"travel."},
                  <<"searchresults", "/search?", "/search/">>, "") >>

\* substrings.some((s) => href.includes(s))
urlContainsAny(href, substrings) ==
  \E i \in 1..Len(substrings) : includes(href, substrings[i])

HostInFamily(host, family) ==
  CASE family.hostTest = "endsWith" -> \E d \in family.hosts : endsWith(host, d)
    [] family.hostTest = "startsWith" -> \E d \in family.hosts : startsWith(host, d)
    [] OTHER -> \E d \in family.hosts : host = d \/ endsWith(host, "." \o d)

\* isSearchResultsPage returns true as soon as one of its blocks does
SearchResultsIn(host, href, families) ==
  \E i \in 1..Len(families) :
    /\ HostInFamily(host, families[i])
    /\ urlContainsAny(href, families[i].substrings)
    /\ families[i].unless = "" \/ ~includes(href, families[i].unless)

isSearchResultsPage(hostname, url) ==
  SearchResultsIn(toLowerCase(hostname), toLowerCase(url), SEARCH_RESULTS_FAMILIES)

\* window.location.hostname of a page whose window.location.href is href
HostnameOf(href) ==
  LET start == indexOf(href, "://", 1) + 3
      slash == indexOf(href, "/", start)
  IN slice(href, start, IF slash = 0 THEN Len(href) ELSE slash - 1)

\* the scanner before init has run
NoScanner ==
  [ phase |-> "loading",          \* "loading", "skipped", "watching", "waiting", "started"
    now |-> 0,
    spaWatcherStarted |-> FALSE,
    lastUrlSeen |-> "",
    nextUrlCheck |-> 0,           \* when the URL watcher's interval fires next
    dynamicObserver |-> 0,        \* 0 is null, k is the observer of the k-th call
    disconnectTimers |-> <<>>,    \* the pending disconnect timers, oldest first
    mutationScanTimeout |-> 0,    \* 0 is null, else when the timer is due
    observers |-> <<>>,           \* for every observer created: when, and how it ended
    scanned |-> {},               \* the URLs runScan has run on, and what asked for it
    navigations |-> 0 ]

\* runScan(): the snapshot it builds and sends carries window.location.href
runScan(sc, href, cause) ==
  [sc EXCEPT !.scanned = @ \cup {[url |-> href, cause |-> cause]}]

\* dynamicObserver.disconnect(); dynamicObserver = null, on behalf of the
\* disconnect timer of call by (0: on behalf of startDynamicObserver)
Disconnect(sc, by) ==
  IF sc.dynamicObserver = 0 THEN sc
  ELSE [sc EXCEPT !.observers[sc.dynamicObserver].connected = FALSE,
                  !.observers[sc.dynamicObserver].disconnectedBy = by,
                  !.dynamicObserver = 0]

\* the second half of startDynamicObserver: new MutationObserver, observe,
\* setTimeout(disconnect, 5000)
ConnectObserver(sc) ==
  [sc EXCEPT !.dynamicObserver = Len(sc.observers) + 1,
             !.observers = Append(@, [created |-> sc.now, connected |-> TRUE,
                                      disconnectedBy |-> 0]),
             !.disconnectTimers = Append(@, [call |-> Len(sc.observers) + 1,
                                             due |-> sc.now + Ticks(OBSERVER_LIFETIME_MS)])]

startDynamicObserver(sc) == ConnectObserver(Disconnect(sc, 0))

setupSpaUrlWatcher(sc, href) ==
  IF sc.spaWatcherStarted THEN sc
  ELSE [sc EXCEPT !.spaWatcherStarted = TRUE,
                  !.lastUrlSeen = href,
                  !.nextUrlCheck = sc.now + Ticks(SPA_URL_CHECK_INTERVAL_MS)]

handleSpaUrlChange(sc, newUrl) ==
  IF isBlockedDomain(HostnameOf(newUrl)) THEN sc
  ELSE IF isSearchEngineHost(HostnameOf(newUrl)) THEN sc
  ELSE IF isSearchResultsPage(HostnameOf(newUrl), newUrl) THEN sc
  ELSE startDynamicObserver(runScan(sc, newUrl, "spa"))

\* init()
init(sc, href) ==
  IF isBlockedDomain(HostnameOf(href)) THEN [sc EXCEPT !.phase = "skipped"]
  ELSE IF isSearchEngineHost(HostnameOf(href)) THEN [sc EXCEPT !.phase = "skipped"]
  ELSE IF isSearchResultsPage(HostnameOf(href), href)
  THEN setupSpaUrlWatcher([sc EXCEPT !.phase = "watching"], href)
  ELSE [sc EXCEPT !.phase = "waiting"]

\* the callback init hands to waitForDependencies
InitialScan(sc, href) ==
  setupSpaUrlWatcher(startDynamicObserver(runScan([sc EXCEPT !.phase = "started"],
                                                  href, "initial")), href)

\* the callback of the URL watcher's setInterval
UrlWatcherTick(sc, current) ==
  IF current # sc.lastUrlSeen
  THEN handleSpaUrlChange([sc EXCEPT !.lastUrlSeen = current], current)
  ELSE sc

\* the pages of the scanner: listings, search results, a mailbox, a search engine
AirbnbListingUrl == "https://www.airbnb.com/rooms/2?check_in=2026-01-01"
AirbnbSearchUrl == "https://www.airbnb.com/s/Paris/homes"
ExpediaSearchUrl == "https://www.expedia.com/Hotel-Search?destination=Paris"
ExpediaHotelUrl == "https://www.expedia.com/Paris-Hotels-Le-Grand.h1.Hotel-Information"
MailboxUrl == "https://mail.google.com/mail/u/0/"
SearchEngineUrl == "https://www.google.com/search?q=hotels"

ScannerHrefs ==
  { AirbnbUrl, AirbnbListingUrl, AirbnbSearchUrl, ExpediaSearchUrl, ExpediaHotelUrl,
    MailboxUrl, SearchEngineUrl, LocationHref, LoginHref }

(***************************************************************************)
(* The background service worker (background.js): the latest result of      *)
(* every tab, kept in memory for one lifetime of the worker.  A message is  *)
(* its type, its payload and its sender; senders are the content scripts    *)
(* of the tabs and the popup, which has no sender.tab.                      *)
(***************************************************************************)
\* the largest tab id
MaxTabId == 1
\* how many messages are sent to the worker
MaxMessages == 3

TabIds == 0..MaxTabId
PopupSender == MaxTabId + 1
Senders == TabIds \cup {PopupSender}

JsNull == [t |-> "null", s |-> "", n |-> 0, a |-> <<>>]

\* sender.tab && sender.tab.id of a sender
SenderTabId(sender) == IF sender \in TabIds THEN JsNumber(sender) ELSE JsUndefined

\* getSenderTabId that tests the id for truth instead of its type
getSenderTabId_Truthy(sender) ==
  IF Truthy(SenderTabId(sender)) THEN SenderTabId(sender) ELSE JsNull

getSenderTabId(sender) ==
  IF SenderTabId(sender).t = "number" THEN SenderTabId(sender) ELSE JsNull

\* latestRiskByTabId[tabId] of a tab that has not reported, and the null answer
NoEntry == [present |-> FALSE, body |-> "", tabId |-> 0, timestamp |-> 0]

Message(type, body, tabId, sender) ==
  [type |-> type, payload |-> [body |-> body, tabId |-> tabId], sender |-> sender]

OkResponse == [ok |-> TRUE, error |-> "", risk |-> NoEntry]
ErrorResponse(error) == [ok |-> FALSE, error |-> error, risk |-> NoEntry]

\* the branch for SCRIBBIT_SCAN_COMPLETE: { ...payload, tabId, timestamp: Date.now() }
OnScanComplete(store, timestamp, message, tabId) ==
  IF tabId.t = "null"
  THEN [store |-> store, response |-> ErrorResponse("NO_TAB_ID")]
  ELSE [store |-> [store EXCEPT ![tabId.n] = [present |-> TRUE, body |-> message.payload.body,
                                              tabId |-> tabId.n, timestamp |-> timestamp]],
        response |-> OkResponse]

\* the branch for SCRIBBIT_GET_CURRENT_RISK, given requestedTabId
OnGetCurrentRisk(store, requestedTabId) ==
  IF requestedTabId.t = "null"
  THEN [store |-> store, response |-> ErrorResponse("NO_TAB_ID")]
  ELSE [store |-> store, response |-> [OkResponse EXCEPT !.risk = store[requestedTabId.n]]]

\* the listener of chrome.runtime.onMessage: the store it leaves and what it
\* hands to sendResponse
onMessage(store, timestamp, message) ==
  CASE message.type = "SCRIBBIT_PING" -> [store |-> store, response |-> OkResponse]
    [] message.type = "SCRIBBIT_SCAN_COMPLETE" ->
         OnScanComplete(store, timestamp, message, getSenderTabId(message.sender))
    [] message.type = "SCRIBBIT_GET_CURRENT_RISK" ->
         OnGetCurrentRisk(store, IF message.payload.tabId.t = "number"
                                 THEN message.payload.tabId
                                 ELSE getSenderTabId(message.sender))
    [] OTHER -> [store |-> store, response |-> ErrorResponse("UNKNOWN_MESSAGE_TYPE")]

\* what the content scripts and the popup send
WorkerMessages ==
  { Message("SCRIBBIT_SCAN_COMPLETE", body, JsUndefined, sender) :
      body \in {"scan A", "scan B"}, sender \in Senders }
  \cup { Message("SCRIBBIT_GET_CURRENT_RISK", "", tabId, sender) :
           tabId \in {JsUndefined} \cup { JsNumber(t) : t \in TabIds }, sender \in Senders }
  \cup { Message(type, "", JsUndefined, sender) :
           type \in {"SCRIBBIT_PING", "SCRIBBIT_OTHER"}, sender \in Senders }

\* the worker after it was started
NoWorker ==
  [ latestRiskByTabId |-> [t \in TabIds |-> NoEntry],
    inFlight |-> [s \in Senders |-> <<>>],   \* sent and not yet handled, per sender
    sent |-> 0,
    handled |-> 0,                           \* stands for Date.now()
    lastMessage |-> Message("", "", JsUndefined, PopupSender),
    lastResponse |-> OkResponse,
    storeBefore |-> [t \in TabIds |-> NoEntry],
    reported |-> [t \in TabIds |-> NoEntry] ] \* the last scan handled for every tab

(***************************************************************************)
(* The per-domain panel mode in chrome.storage.local (ui/panel.js): one     *)
(* object under PANEL_STATE_STORAGE_KEY, hostname -> "mini" | "full", that  *)
(* every page reads whole and writes back whole.  "none" is a hostname the  *)
(* object has no entry for.                                                 *)
(***************************************************************************)
\* how many times saveDomainPanelState is called
MaxSaves == 3

StorageHostnames == { HostnameOf(AirbnbUrl), HostnameOf(ExpediaHotelUrl) }
PanelModes == {"mini", "full"}

NoStorage ==
  [ stored |-> [h \in StorageHostnames |-> "none"],
    saves |-> [h \in StorageHostnames |-> <<>>],   \* the calls in progress of every page
    lastSaved |-> [h \in StorageHostnames |-> "none"],
    calls |-> 0 ]

\* saveDomainPanelState(mode) up to chrome.storage.local.get
saveDomainPanelState(st, hostname, mode) ==
  [st EXCEPT !.saves[hostname] = Append(@, [mode |-> mode, step |-> "get", stored |-> st.stored]),
             !.lastSaved[hostname] = mode,
             !.calls = @ + 1]

\* the first call of the page that still waits for its get
WaitingGet(st, hostname) ==
  { i \in 1..Len(st.saves[hostname]) :
      /\ st.saves[hostname][i].step = "get"
      /\ \A j \in 1..(i - 1) : st.saves[hostname][j].step = "set" }

\* the callback of chrome.storage.local.get: stored[hostname] = mode, then
\* chrome.storage.local.set of the whole object
SaveGetCallback(st, hostname, i) ==
  [st EXCEPT !.saves[hostname][i] =
               [mode |-> @.mode, step |-> "set",
                stored |-> [st.stored EXCEPT ![hostname] = st.saves[hostname][i].mode]]]

\* chrome.storage.local.set takes effect
SaveSetDone(st, hostname) ==
  [st EXCEPT !.stored = st.saves[hostname][1].stored,
             !.saves[hostname] = Tail(@)]

(***************************************************************************)
(* State                                                                    *)
(***************************************************************************)
VARIABLES
  windowRiskModel,   \* window.ScribbitRiskModel: "undefined", "full" or "stub"
  rulesCards,        \* registry rules.js captured: "unloaded", "undefined", "full", "stub"
  engineRiskModel,   \* RiskModel riskEngine.js captured: "unloaded", "undefined", "full", "stub"
  engineRules,       \* Rules riskEngine.js captured: "null" or the registry of those rules
  snapshot,          \* the snapshot of the current evaluatePage call
  outcome,           \* "none", "pending" (call not made yet), "returned" or "threw"
  scan,              \* what Rules.evaluateAll handed to the try block of evaluatePage
  result,            \* the result evaluatePage returned
  locationHref,      \* window.location.href of the page the engine runs in
  earlier,           \* an evaluatePage call that returned before the current one
  popupInput,        \* the result handed to shouldAutoPopup and to updatePanel
  popupContext,      \* context of the shouldAutoPopup call
  popupDecision,     \* "none", or what shouldAutoPopup returned
  panel,             \* the on-page panel: its script, panelManuallyHidden, style.display
  evidenceCall,      \* a call of findKeywordEvidence: its arguments and what it returned
  scanner,           \* scanner.js: its timers, its observer and the scans it ran
  worker,            \* background.js: latestRiskByTabId and the messages on their way
  storage            \* chrome.storage.local: the panel modes and the saves in progress

vars ==
  << windowRiskModel, rulesCards, engineRiskModel, engineRules, snapshot, outcome, scan, result,
     locationHref, earlier, popupInput, popupContext, popupDecision, panel, evidenceCall,
     scanner, worker, storage >>

engineVars ==
  << windowRiskModel, rulesCards, engineRiskModel, engineRules, snapshot, outcome, scan, result >>
pageVars == << locationHref, earlier >>
popupVars == << popupInput, popupContext, popupDecision >>
uiVars == << popupVars, panel >>
extractorVars == << evidenceCall >>
shellVars == << scanner, worker, storage >>

NoPopupInput == [risks |-> <<>>, riskScore |-> 0, hasMeaningfulContent |-> FALSE]

NoEarlier == [made |-> FALSE, snapshot |-> EmptyObject, result |-> NoResult]

\* no panel element in the document yet
NoPanel(script) ==
  [script |-> script, panelManuallyHidden |-> FALSE, panelModeInitialized |-> FALSE,
   loading |-> FALSE, display |-> "absent", updated |-> FALSE,
   currentPanelMode |-> IF script = "panel mini mode" THEN "full" ELSE "mini"]

NoEvidenceCall ==
  [rawText |-> JsUndefined, keywords |-> <<>>, maxSnippets |-> 3, returned |-> FALSE,
   snippets |-> <<>>]

Init ==
  /\ windowRiskModel = "undefined"
  /\ rulesCards = "unloaded"
  /\ engineRiskModel = "unloaded"
  /\ engineRules = "null"
  /\ snapshot = EmptyObject
  /\ outcome = "none"
  /\ scan = NoScan
  /\ result = NoResult
  /\ locationHref = LocationHref
  /\ earlier = NoEarlier
  /\ popupInput = NoPopupInput
  /\ popupContext = [pageMode |-> "content-rich"]
  /\ popupDecision = "none"
  /\ panel = NoPanel("panel.js")
  /\ evidenceCall = NoEvidenceCall
  /\ scanner = NoScanner
  /\ worker = NoWorker
  /\ storage = NoStorage

(***************************************************************************)
(* Loading the scripts                                                      *)
(***************************************************************************)
\* riskModel.js: window.ScribbitRiskModel = ScribbitRiskModel
LoadRiskModel ==
  /\ windowRiskModel = "undefined"
  /\ windowRiskModel' = "full"
  /\ UNCHANGED << rulesCards, engineRiskModel, engineRules, snapshot, outcome, scan, result >>
  /\ UNCHANGED << pageVars, uiVars, extractorVars, shellVars >>

\* the test harness installs a RiskModel with cards and the two page helpers only
InstallStubRiskModel ==
  /\ windowRiskModel = "undefined"
  /\ windowRiskModel' = "stub"
  /\ UNCHANGED << rulesCards, engineRiskModel, engineRules, snapshot, outcome, scan, result >>
  /\ UNCHANGED << pageVars, uiVars, extractorVars, shellVars >>

\* rules.js: const RISK_CARDS = (window.ScribbitRiskModel || {}).RISK_CARDS || {}
LoadRules ==
  /\ rulesCards = "unloaded"
  /\ rulesCards' = windowRiskModel
  /\ UNCHANGED << windowRiskModel, engineRiskModel, engineRules, snapshot, outcome, scan, result >>
  /\ UNCHANGED << pageVars, uiVars, extractorVars, shellVars >>

\* riskEngine.js: const RiskModel = window.ScribbitRiskModel || {};
\*                const Rules = window.ScribbitRules || null
LoadEngine ==
  /\ engineRiskModel = "unloaded"
  /\ engineRiskModel' = windowRiskModel
  /\ engineRules' = IF rulesCards = "unloaded" THEN "null" ELSE rulesCards
  /\ UNCHANGED << windowRiskModel, rulesCards, snapshot, outcome, scan, result >>
  /\ UNCHANGED << pageVars, uiVars, extractorVars, shellVars >>

(***************************************************************************)
(* Evaluating a page                                                        *)
(***************************************************************************)
\* a caller has a snapshot ready for evaluatePage
BuildSnapshot(s) ==
  /\ engineRiskModel # "unloaded"
  /\ snapshot' = s
  /\ outcome' = "pending"
  /\ scan' = NoScan
  /\ result' = NoResult
  /\ UNCHANGED << windowRiskModel, rulesCards, engineRiskModel, engineRules >>
  /\ UNCHANGED << pageVars, uiVars, extractorVars, shellVars >>

\* ScribbitRiskEngine.evaluatePage(snapshot)
EvaluatePage ==
  /\ outcome = "pending"
  /\ \E call \in { evaluatePage(engineRiskModel, engineRules, locationHref, snapshot) } :
        /\ outcome' = IF call.threw THEN "threw" ELSE "returned"
        /\ scan' = call.scan
        /\ result' = call.result
  /\ UNCHANGED << windowRiskModel, rulesCards, engineRiskModel, engineRules, snapshot >>
  /\ UNCHANGED << pageVars, uiVars, extractorVars, shellVars >>

Next ==
  \/ LoadRiskModel
  \/ InstallStubRiskModel
  \/ LoadRules
  \/ LoadEngine
  \/ \E s \in Snapshots : BuildSnapshot(s)
  \/ EvaluatePage

Spec == Init /\ [][Next]_vars

(***************************************************************************)
(* The auto-popup decision as a function of its two arguments               *)
(***************************************************************************)
InitPopup ==
  /\ windowRiskModel = "full"
  /\ rulesCards = "unloaded"
  /\ engineRiskModel = "unloaded"
  /\ engineRules = "null"
  /\ snapshot = EmptyObject
  /\ outcome = "none"
  /\ scan = NoScan
  /\ result = NoResult
  /\ locationHref = LocationHref
  /\ earlier = NoEarlier
  /\ popupInput \in AnalysisResults
  /\ popupContext \in [pageMode : PageModes]
  /\ popupDecision = "none"
  /\ panel \in { NoPanel(script) : script \in PanelScripts }
  /\ evidenceCall = NoEvidenceCall
  /\ scanner = NoScanner
  /\ worker = NoWorker
  /\ storage = NoStorage

\* ScribbitRiskModel.shouldAutoPopup(analysisResult, context)
ShouldAutoPopup ==
  /\ windowRiskModel = "full"
  /\ popupDecision = "none"
  /\ popupDecision' = IF shouldAutoPopup(popupInput, popupContext) THEN "yes" ELSE "no"
  /\ UNCHANGED << popupInput, popupContext, panel >>
  /\ UNCHANGED << engineVars, pageVars, extractorVars, shellVars >>

\* ScribbitMessaging hands the result to the panel: updatePanel(payload)
UpdatePanel ==
  /\ panel' = CASE panel.script = "panel.js" -> updatePanel(panel, popupInput)
                 [] panel.script = "panel 2.0" -> updatePanelV2(panel, popupInput)
                 [] OTHER -> updatePanelV1(panel, popupInput)
  /\ UNCHANGED popupVars
  /\ UNCHANGED << engineVars, pageVars, extractorVars, shellVars >>

\* the click handler of the close button
ClosePanel ==
  /\ panel.display = "block"
  /\ panel' = [panel EXCEPT !.panelManuallyHidden = TRUE, !.display = "none"]
  /\ UNCHANGED popupVars
  /\ UNCHANGED << engineVars, pageVars, extractorVars, shellVars >>

\* chrome.storage.local.get calls back the callback of loadDomainPanelState
PanelModeLoaded ==
  /\ panel.loading
  /\ \E mode \in LoadedModes : panel' = PanelModeCallback(panel, mode)
  /\ UNCHANGED popupVars
  /\ UNCHANGED << engineVars, pageVars, extractorVars, shellVars >>

NextPopup ==
  \/ ShouldAutoPopup
  \/ UpdatePanel
  \/ ClosePanel
  \/ PanelModeLoaded

SpecPopup == InitPopup /\ [][NextPopup]_vars

(***************************************************************************)
(* Evaluating again while the page moves (single-page navigation)           *)
(***************************************************************************)
InitRepeat ==
  /\ windowRiskModel = "full"
  /\ rulesCards \in {"undefined", "full"}
  /\ engineRiskModel \in {"undefined", "full"}
  /\ ~(rulesCards = "full" /\ engineRiskModel = "undefined")
  /\ engineRules = rulesCards
  /\ snapshot = EmptyObject
  /\ outcome = "none"
  /\ scan = NoScan
  /\ result = NoResult
  /\ locationHref = LocationHref
  /\ earlier = NoEarlier
  /\ popupInput = NoPopupInput
  /\ popupContext = [pageMode |-> "content-rich"]
  /\ popupDecision = "none"
  /\ panel = NoPanel("panel.js")
  /\ evidenceCall = NoEvidenceCall
  /\ scanner = NoScanner
  /\ worker = NoWorker
  /\ storage = NoStorage

\* the page changes its URL without reloading the scripts
Navigate(href) ==
  /\ locationHref # href
  /\ locationHref' = href
  /\ UNCHANGED earlier
  /\ UNCHANGED << engineVars, uiVars, extractorVars, shellVars >>

\* the caller keeps the snapshot and the result of the call that just returned
KeepResult ==
  /\ outcome = "returned"
  /\ earlier' = [made |-> TRUE, snapshot |-> snapshot, result |-> result]
  /\ UNCHANGED locationHref
  /\ UNCHANGED << engineVars, uiVars, extractorVars, shellVars >>

NextRepeat ==
  \/ \E s \in RepeatSnapshots : BuildSnapshot(s)
  \/ EvaluatePage
  \/ \E href \in LocationHrefs : Navigate(href)
  \/ KeepResult

SpecRepeat == InitRepeat /\ [][NextRepeat]_vars

(***************************************************************************)
(* The evidence extractor as a function of its arguments                    *)
(***************************************************************************)
InitEvidence ==
  /\ windowRiskModel = "full"
  /\ rulesCards = "full"
  /\ engineRiskModel = "unloaded"
  /\ engineRules = "null"
  /\ snapshot = EmptyObject
  /\ outcome = "none"
  /\ scan = NoScan
  /\ result = NoResult
  /\ locationHref = LocationHref
  /\ earlier = NoEarlier
  /\ popupInput = NoPopupInput
  /\ popupContext = [pageMode |-> "content-rich"]
  /\ popupDecision = "none"
  /\ panel = NoPanel("panel.js")
  /\ evidenceCall \in
       { [rawText |-> rawText, keywords |-> keywords, maxSnippets |-> maxSnippets,
          returned |-> FALSE, snippets |-> <<>>] :
           rawText \in EvidenceTexts, keywords \in EvidenceKeywordLists,
           maxSnippets \in 1..MaxSnippetLimit }
  /\ scanner = NoScanner
  /\ worker = NoWorker
  /\ storage = NoStorage

\* findKeywordEvidence(text, rawText, keywords, maxSnippets)
FindKeywordEvidence ==
  /\ ~evidenceCall.returned
  /\ \E call \in { findKeywordEvidence(evidenceCall.rawText, evidenceCall.keywords,
                                          evidenceCall.maxSnippets) } :
        evidenceCall' = [evidenceCall EXCEPT !.returned = TRUE, !.snippets = call.snippets]
  /\ UNCHANGED << engineVars, pageVars, uiVars, shellVars >>

NextEvidence == FindKeywordEvidence

SpecEvidence == InitEvidence /\ [][NextEvidence]_vars

(***************************************************************************)
(* The panel under a stream of risk updates                                 *)
(***************************************************************************)
InitPanel ==
  /\ windowRiskModel = "full"
  /\ rulesCards = "unloaded"
  /\ engineRiskModel = "unloaded"
  /\ engineRules = "null"
  /\ snapshot = EmptyObject
  /\ outcome = "none"
  /\ scan = NoScan
  /\ result = NoResult
  /\ locationHref = LocationHref
  /\ earlier = NoEarlier
  /\ popupInput = NoPopupInput
  /\ popupContext = [pageMode |-> "content-rich"]
  /\ popupDecision = "none"
  /\ panel \in { NoPanel(script) : script \in PanelScripts }
  /\ evidenceCall = NoEvidenceCall
  /\ scanner = NoScanner
  /\ worker = NoWorker
  /\ storage = NoStorage

\* the listener given to onRiskUpdated, or the answer to requestCurrentRisk:
\* updatePanel(payload)
RiskUpdated(payload) ==
  /\ popupInput' = payload
  /\ panel' = CASE panel.script = "panel.js" -> updatePanel(panel, payload)
                [] panel.script = "panel 2.0" -> updatePanelV2(panel, payload)
                [] OTHER -> updatePanelV1(panel, payload)
  /\ UNCHANGED << popupContext, popupDecision >>
  /\ UNCHANGED << engineVars, pageVars, extractorVars, shellVars >>

\* the user clicks the header of the visible panel
HeaderClicked ==
  /\ panel.display = "block"
  /\ panel' = togglePanelMode(panel)
  /\ UNCHANGED popupVars
  /\ UNCHANGED << engineVars, pageVars, extractorVars, shellVars >>

NextPanel ==
  \/ \E payload \in PanelPayloads : RiskUpdated(payload)
  \/ PanelModeLoaded
  \/ ClosePanel
  \/ HeaderClicked

SpecPanel == InitPanel /\ [][NextPanel]_vars

(***************************************************************************)
(* The scanner on a page that changes its URL and its DOM                   *)
(***************************************************************************)
\* how far the clock of the scanner runs, in periods of the URL watcher
MaxTicks == 12
\* how many times the page changes its URL
MaxNavigations == 2

InitScanner ==
  /\ windowRiskModel = "full"
  /\ rulesCards = "full"
  /\ engineRiskModel = "full"
  /\ engineRules = "full"
  /\ snapshot = EmptyObject
  /\ outcome = "none"
  /\ scan = NoScan
  /\ result = NoResult
  /\ locationHref \in ScannerHrefs
  /\ earlier = NoEarlier
  /\ popupInput = NoPopupInput
  /\ popupContext = [pageMode |-> "content-rich"]
  /\ popupDecision = "none"
  /\ panel = NoPanel("panel.js")
  /\ evidenceCall = NoEvidenceCall
  /\ scanner = NoScanner
  /\ worker = NoWorker
  /\ storage = NoStorage

scannerFrame ==
  /\ UNCHANGED << engineVars, earlier, uiVars, extractorVars, worker, storage >>

\* DOMContentLoaded (or the script running after it): init()
ScannerInit ==
  /\ scanner.phase = "loading"
  /\ scanner' = init(scanner, locationHref)
  /\ UNCHANGED locationHref
  /\ scannerFrame

\* waitForDependencies finds ScribbitMessaging and ScribbitRiskEngine
DependenciesReady ==
  /\ scanner.phase = "waiting"
  /\ scanner' = InitialScan(scanner, locationHref)
  /\ UNCHANGED locationHref
  /\ scannerFrame

\* the interval of setupSpaUrlWatcher fires
UrlWatcherFires ==
  /\ scanner.spaWatcherStarted
  /\ scanner.nextUrlCheck <= scanner.now
  /\ scanner' = UrlWatcherTick(
                  [scanner EXCEPT !.nextUrlCheck = @ + Ticks(SPA_URL_CHECK_INTERVAL_MS)],
                  locationHref)
  /\ UNCHANGED locationHref
  /\ scannerFrame

\* the oldest 5000 ms timer of startDynamicObserver fires
DisconnectTimerFires ==
  /\ Len(scanner.disconnectTimers) > 0
  /\ scanner.disconnectTimers[1].due <= scanner.now
  /\ scanner' = Disconnect([scanner EXCEPT !.disconnectTimers = Tail(@)],
                           scanner.disconnectTimers[1].call)
  /\ UNCHANGED locationHref
  /\ scannerFrame

\* the page changes its DOM and the connected observer is called back
DomMutation ==
  /\ scanner.dynamicObserver # 0
  /\ scanner.mutationScanTimeout = 0
  /\ scanner' = [scanner EXCEPT !.mutationScanTimeout =
                                   scanner.now + Ticks(MUTATION_SCAN_DELAY_MS)]
  /\ UNCHANGED locationHref
  /\ scannerFrame

\* the 500 ms timer of the mutation callback fires
MutationScanFires ==
  /\ scanner.mutationScanTimeout # 0
  /\ scanner.mutationScanTimeout <= scanner.now
  /\ scanner' = runScan([scanner EXCEPT !.mutationScanTimeout = 0], locationHref, "mutation")
  /\ UNCHANGED locationHref
  /\ scannerFrame

\* the page moves to another URL of its site without a reload
SpaNavigate(href) ==
  /\ scanner.phase \in {"waiting", "started", "watching"}
  /\ scanner.navigations < MaxNavigations
  /\ href # locationHref
  /\ HostnameOf(href) = HostnameOf(locationHref)
  /\ locationHref' = href
  /\ scanner' = [scanner EXCEPT !.navigations = @ + 1]
  /\ scannerFrame

\* one period of the URL watcher passes; the timers that are due fire first
Tick ==
  /\ scanner.phase \in {"started", "watching"}
  /\ scanner.now < MaxTicks
  /\ scanner.nextUrlCheck > scanner.now
  /\ Len(scanner.disconnectTimers) > 0 => scanner.disconnectTimers[1].due > scanner.now
  /\ scanner.mutationScanTimeout # 0 => scanner.mutationScanTimeout > scanner.now
  /\ scanner' = [scanner EXCEPT !.now = @ + 1]
  /\ UNCHANGED locationHref
  /\ scannerFrame

NextScanner ==
  \/ ScannerInit
  \/ DependenciesReady
  \/ UrlWatcherFires
  \/ DisconnectTimerFires
  \/ DomMutation
  \/ MutationScanFires
  \/ \E href \in ScannerHrefs : SpaNavigate(href)
  \/ Tick

SpecScanner == InitScanner /\ [][NextScanner]_vars

(***************************************************************************)
(* The background worker and the messages sent to it                        *)
(***************************************************************************)
InitWorker ==
  /\ windowRiskModel = "full"
  /\ rulesCards = "full"
  /\ engineRiskModel = "full"
  /\ engineRules = "full"
  /\ snapshot = EmptyObject
  /\ outcome = "none"
  /\ scan = NoScan
  /\ result = NoResult
  /\ locationHref = LocationHref
  /\ earlier = NoEarlier
  /\ popupInput = NoPopupInput
  /\ popupContext = [pageMode |-> "content-rich"]
  /\ popupDecision = "none"
  /\ panel = NoPanel("panel.js")
  /\ evidenceCall = NoEvidenceCall
  /\ scanner = NoScanner
  /\ worker = NoWorker
  /\ storage = NoStorage

\* chrome.runtime.sendMessage(message) in a content script or in the popup
SendMessage(message) ==
  /\ worker.sent < MaxMessages
  /\ worker' = [worker EXCEPT !.inFlight[message.sender] = Append(@, message),
                              !.sent = @ + 1]
  /\ UNCHANGED << engineVars, pageVars, uiVars, extractorVars, scanner, storage >>

\* the worker is handed the oldest message of a sender and answers it
HandleMessage(sender) ==
  /\ Len(worker.inFlight[sender]) > 0
  /\ \E message \in { worker.inFlight[sender][1] } :
       \E handled \in { onMessage(worker.latestRiskByTabId, worker.handled + 1, message) } :
         worker' = [worker EXCEPT
                      !.inFlight[sender] = Tail(@),
                      !.handled = @ + 1,
                      !.storeBefore = worker.latestRiskByTabId,
                      !.latestRiskByTabId = handled.store,
                      !.lastMessage = message,
                      !.lastResponse = handled.response,
                      !.reported =
                         IF message.type = "SCRIBBIT_SCAN_COMPLETE" /\ sender \in TabIds
                         THEN [@ EXCEPT ![sender] =
                                 [present |-> TRUE, body |-> message.payload.body,
                                  tabId |-> sender, timestamp |-> worker.handled + 1]]
                         ELSE @]
  /\ UNCHANGED << engineVars, pageVars, uiVars, extractorVars, scanner, storage >>

NextWorker ==
  \/ \E message \in WorkerMessages : SendMessage(message)
  \/ \E sender \in Senders : HandleMessage(sender)

SpecWorker == InitWorker /\ [][NextWorker]_vars

(***************************************************************************)
(* Pages on different hostnames saving their panel mode                     *)
(***************************************************************************)
InitStorage ==
  /\ windowRiskModel = "full"
  /\ rulesCards = "full"
  /\ engineRiskModel = "full"
  /\ engineRules = "full"
  /\ snapshot = EmptyObject
  /\ outcome = "none"
  /\ scan = NoScan
  /\ result = NoResult
  /\ locationHref = LocationHref
  /\ earlier = NoEarlier
  /\ popupInput = NoPopupInput
  /\ popupContext = [pageMode |-> "content-rich"]
  /\ popupDecision = "none"
  /\ panel = NoPanel("panel.js")
  /\ evidenceCall = NoEvidenceCall
  /\ scanner = NoScanner
  /\ worker = NoWorker
  /\ storage = NoStorage

\* setPanelMode(panel, mode) on the page of hostname: saveDomainPanelState(mode)
SetPanelMode(hostname, mode) ==
  /\ storage.calls < MaxSaves
  /\ storage' = saveDomainPanelState(storage, hostname, mode)
  /\ UNCHANGED << engineVars, pageVars, uiVars, extractorVars, scanner, worker >>

\* chrome.storage.local.get calls back on the page of hostname
StorageGetReturns(hostname) ==
  /\ \E i \in WaitingGet(storage, hostname) : storage' = SaveGetCallback(storage, hostname, i)
  /\ UNCHANGED << engineVars, pageVars, uiVars, extractorVars, scanner, worker >>

\* chrome.storage.local.set of the page of hostname takes effect
StorageSetApplied(hostname) ==
  /\ Len(storage.saves[hostname]) > 0
  /\ storage.saves[hostname][1].step = "set"
  /\ storage' = SaveSetDone(storage, hostname)
  /\ UNCHANGED << engineVars, pageVars, uiVars, extractorVars, scanner, worker >>

NextStorage ==
  \/ \E hostname \in StorageHostnames, mode \in PanelModes : SetPanelMode(hostname, mode)
  \/ \E hostname \in StorageHostnames : StorageGetReturns(hostname)
  \/ \E hostname \in StorageHostnames : StorageSetApplied(hostname)

SpecStorage == InitStorage /\ [][NextStorage]_vars

(***************************************************************************)
(* Properties                                                               *)
(***************************************************************************)
Called == outcome \in {"returned", "threw"}

\* the registry of the rules the engine runs, and the snapshot they are given
ScanCards == CardsOf(engineRules)
SafeSnapshot == IF snapshot.t = "object" THEN snapshot ELSE EmptyObject

\* the score the severity of a finding stands for: low = 25, med = 50, high = 80
FindingSeverityScore(r) ==
  CASE r.severity = "HIGH" -> 80
    [] r.severity = "MEDIUM" -> 50
    [] r.severity = "LOW" -> 25
    [] OTHER -> 0

MaxSeverityScore(risks, c) ==
  SetMax({0} \cup { FindingSeverityScore(risks[i]) :
                      i \in { j \in 1..Len(risks) : risks[j].category = c } })

\* C1: every category score of a result is the maximum severity score
\* (low = 25, med = 50, high = 80) over the findings of that category, and 0
\* when the category has no finding
C1_CategoryScoreIsMaxSeverity ==
  outcome = "returned" =>
    \A c \in CategorySet : result.categoryScores[c] = MaxSeverityScore(result.risks, c)

\* C2: in every result of evaluatePage, riskScore is the maximum of the values
\* of categoryScores of that result
C2_RiskScoreIsMaxCategoryScore ==
  outcome = "returned" =>
    result.riskScore = SetMax({ result.categoryScores[c] : c \in CategorySet })

C2_Witness ==
  /\ outcome = "returned"
  /\ result.categoryScores["financial"] = 50
  /\ result.categoryScores["legal_rights"] = 80
  /\ result.riskScore = 80

\* C3: in every result of evaluatePage, overallLevel is HIGH iff riskScore >= 70,
\* MEDIUM iff 40 <= riskScore < 70, and LOW otherwise
C3_OverallLevelThresholds ==
  outcome = "returned" =>
    /\ result.overallLevel = "HIGH" <=> result.riskScore >= 70
    /\ result.overallLevel = "MEDIUM" <=> (result.riskScore >= 40 /\ result.riskScore < 70)
    /\ result.overallLevel = "LOW" <=> result.riskScore < 40

C3_Witness ==
  /\ outcome = "returned"
  /\ result.riskScore = 80
  /\ result.overallLevel = "HIGH"

\* the text of the snapshot, raw and normalized, holds a strong non-refundable phrase
HasStrongRefundPhrase ==
  /\ snapshot.t = "object"
  /\ snapshot.textNormalized.t = "string"
  /\ snapshot.textRaw.t = "string"
  /\ SomeIncluded(snapshot.textNormalized.s, REFUND_strongTerms)
  /\ SomeIncluded(toLowerCase(snapshot.textRaw.s), REFUND_strongTerms)

\* C4: a snapshot with a strong non-refundable phrase, evaluated with the rule
\* catalog, the Risk Card Registry and the scoring helpers all loaded, yields a
\* finding non_refundable_or_final_sale of severity high, a financial score of
\* 80, riskScore 80 and overallLevel HIGH
C4_ScenarioB ==
  (/\ outcome = "returned"
   /\ engineRiskModel = "full"
   /\ engineRules = "full"
   /\ HasStrongRefundPhrase)
  => /\ \E i \in 1..Len(result.risks) :
          /\ result.risks[i].id = "non_refundable_or_final_sale"
          /\ result.risks[i].severity = "HIGH"
     /\ result.categoryScores["financial"] = 80
     /\ result.riskScore = 80
     /\ result.overallLevel = "HIGH"

\* the positions in the catalog of the detectors that hand back a finding
FindingRules(cards, s) ==
  { i \in 1..Len(ALL_RULES) : RuleEvaluate(ALL_RULES[i], cards, s).kind = "risk" }

ThrowingRules(cards, s) ==
  { i \in 1..Len(ALL_RULES) : RuleEvaluate(ALL_RULES[i], cards, s).kind = "throw" }

\* C5: when detectors throw during evaluateAll, evaluateAll still returns, and
\* its result holds exactly the findings of the detectors that did not throw,
\* in catalog order
C5_ThrowingDetectorIsSkipped ==
  (Called /\ engineRules # "null") =>
    LET hits == FindingRules(ScanCards, SafeSnapshot)
    IN /\ ~scan.threw
       /\ Len(scan.risks) = Cardinality(hits)
       /\ \A i \in hits :
            scan.risks[Cardinality({ j \in hits : j <= i })]
              = RuleEvaluate(ALL_RULES[i], ScanCards, SafeSnapshot).risk

C5_Witness ==
  /\ outcome = "returned"
  /\ engineRules = "full"
  /\ ThrowingRules(ScanCards, SafeSnapshot) # {}
  /\ Len(scan.risks) > 0
  /\ result.risks = scan.risks

\* the card ids the detectors ask createRiskFromCard for
RequestedCardIds ==
  { "non_refundable_or_final_sale", "short_refund_or_return_window",
    "ultra_short_refund_window", "delayed_refund_processing", "dcc_or_fx_markup",
    "mandatory_arbitration", "auto_renewing_subscription",
    "trial_converts_to_paid_subscription", "unilateral_terms_changes",
    "resort_or_facility_fee", "extra_fees_not_in_base_price" }

\* a registry that agrees with cards and also knows every card a detector asks for
Completed(cards) ==
  [id \in DOMAIN cards \cup RequestedCardIds |->
     IF id \in DOMAIN cards THEN cards[id]
     ELSE [id |-> id, category |-> "financial", severity |-> "med", autoPopupWorthy |-> FALSE]]

\* the requests the detectors make on a snapshot, seen through a registry that
\* answers all of them
RequestsOf(cards, s) == evaluateAll(Completed(cards), s).risks

KnownCard(r) == r.id \in DOMAIN ScanCards

\* C6: a detector that asks for a card id that is not in the registry
\* contributes no finding and raises no exception, and the findings of the
\* other detectors are what they are without it
C6_UnknownCardIsNoFinding ==
  (Called /\ engineRules # "null") =>
    /\ ~scan.threw
    /\ \A i \in 1..Len(scan.risks) : KnownCard(scan.risks[i])
    /\ scan.risks = SelectSeq(RequestsOf(ScanCards, SafeSnapshot), KnownCard)

C6_Witness ==
  /\ outcome = "returned"
  /\ engineRules = "full"
  /\ \E i \in 1..Len(RequestsOf(ScanCards, SafeSnapshot)) :
       ~KnownCard(RequestsOf(ScanCards, SafeSnapshot)[i])
  /\ Len(scan.risks) > 0

\* the snapshot carries no text a detector can use
NoUsableText ==
  \/ snapshot.t # "object"
  \/ snapshot.textNormalized.t # "string"
  \/ snapshot.textNormalized.s = ""

\* C7: evaluatePage never throws, whatever the snapshot is, and without usable
\* text its result has no risks, every category score 0, riskScore 0 and level LOW
C7_EvaluatePageNeverThrows ==
  Called =>
    /\ outcome = "returned"
    /\ NoUsableText =>
         /\ result.risks = <<>>
         /\ \A c \in CategorySet : result.categoryScores[c] = 0
         /\ result.riskScore = 0
         /\ result.overallLevel = "LOW"

DistinctMarkers ==
  IF SafeSnapshot.currencySymbolsDetected.t = "array"
  THEN { toUpperCase(SafeSnapshot.currencySymbolsDetected.a[i]) :
           i \in 1..Len(SafeSnapshot.currencySymbolsDetected.a) }
  ELSE {}

HasConversionLanguage ==
  /\ SafeSnapshot.textNormalized.t = "string"
  /\ SomeIncluded(SafeSnapshot.textNormalized.s, dccPhrases)

HasDccFinding == \E i \in 1..Len(scan.risks) : scan.risks[i].id = "dcc_or_fx_markup"

\* C8: a dcc_or_fx_markup finding is emitted only for a snapshot with at least
\* two distinct currency markers and a conversion-language phrase in its
\* normalized text
C8_DccNeedsMarkersAndLanguage ==
  (Called /\ HasDccFinding) =>
    /\ Cardinality(DistinctMarkers) >= 2
    /\ HasConversionLanguage

C8_Witness ==
  /\ outcome = "returned"
  /\ HasDccFinding
  /\ Cardinality(DistinctMarkers) = 2

\* C9: shouldAutoPopup returns true only if riskScore >= 50 and some finding
\* comes from a card whose autoPopupWorthy flag is true
C9_PopupNeedsScoreAndWorthyCard ==
  popupDecision = "yes" =>
    /\ popupInput.riskScore >= 50
    /\ \E i \in 1..Len(popupInput.risks) :
         RISK_CARDS[popupInput.risks[i].id].autoPopupWorthy

C9_Witness ==
  /\ popupDecision = "yes"
  /\ \E i \in 1..Len(popupInput.risks) :
       ~RISK_CARDS[popupInput.risks[i].id].autoPopupWorthy

\* C10: shouldAutoPopup returns false whenever pageMode is auth or
\* hasMeaningfulContent is false, for every risk list and every riskScore
C10_NoPopupOnAuthOrThinContent ==
  (popupDecision # "none"
     /\ (popupContext.pageMode = "auth" \/ ~popupInput.hasMeaningfulContent))
  => popupDecision = "no"

C10_Witness ==
  /\ popupDecision = "no"
  /\ popupContext.pageMode = "content-rich"
  /\ ~popupInput.hasMeaningfulContent
  /\ popupInput.riskScore = 80
  /\ \E i \in 1..Len(popupInput.risks) : popupInput.risks[i].autoPopupWorthy

\* the text whose length the page classifier reads
RawText ==
  IF Truthy(SafeSnapshot.textRaw) THEN SafeSnapshot.textRaw
  ELSE OrEmptyString(SafeSnapshot.textNormalized)

\* C11: hasMeaningfulContent is true for every content-rich page, false for
\* every auth page whatever its text length and findings, and for a
\* low-content page true exactly when the raw text has at least 600 characters
C11_MeaningfulContentByPageMode ==
  outcome = "returned" =>
    /\ result.pageMode = "content-rich" => result.hasMeaningfulContent
    /\ result.pageMode = "auth" => ~result.hasMeaningfulContent
    /\ result.pageMode = "low-content" =>
         /\ RawText.t = "string"
         /\ result.hasMeaningfulContent <=> Len(RawText.s) >= 600

C11_Witness ==
  /\ outcome = "returned"
  /\ engineRiskModel = "full"
  /\ result.pageMode = "low-content"
  /\ result.hasMeaningfulContent
  /\ Len(RawText.s) >= 600

\* the page classifier is the program's: the helpers of riskModel.js or the
\* fallback of riskEngine.js, not the constant helpers of a test harness
ProgramClassifier == engineRiskModel \in {"undefined", "full"}

\* the URL of the page as text: the url of the snapshot, else window.location.href
PageUrl == IF Truthy(SafeSnapshot.url) THEN ToJsString(SafeSnapshot.url) ELSE locationHref

AuthPathPatterns == {"/login", "/signin", "/sign-in", "/auth", "/register", "/signup"}

LooksAuth == \E pattern \in AuthPathPatterns : includes(toLowerCase(PageUrl), pattern)

\* C12: for a snapshot whose raw text is a string, pageMode is auth whenever
\* the URL contains one of the login/signin/sign-in/auth/register/signup path
\* patterns in any letter case, whatever the text length; otherwise it is
\* low-content when the raw text has fewer than 800 characters and
\* content-rich when it has 800 or more
C12_PageModeClassification ==
  (outcome = "returned" /\ ProgramClassifier /\ RawText.t = "string") =>
    result.pageMode = IF LooksAuth THEN "auth"
                      ELSE IF Len(RawText.s) < 800 THEN "low-content"
                      ELSE "content-rich"

C12_Witness ==
  /\ outcome = "returned"
  /\ engineRiskModel = "full"
  /\ LooksAuth
  /\ ~(\E pattern \in AuthPathPatterns : includes(PageUrl, pattern))
  /\ Len(RawText.s) >= 800
  /\ result.pageMode = "auth"

\* C13: a result with hasMeaningfulContent = false is not acted on by any
\* consumer, whatever its risks: shouldAutoPopup answers false and the panel
\* is not shown
C13_NotMeaningfulIsNotShown ==
  ~popupInput.hasMeaningfulContent =>
    /\ popupDecision # "yes"
    /\ panel.display # "block"

\* C14: two evaluatePage calls on equal snapshots return identical results,
\* whatever happened between them
C14_EqualSnapshotsEqualResults ==
  (outcome = "returned" /\ earlier.made /\ earlier.snapshot = snapshot) =>
    earlier.result = result

\* a snippet without the ellipsis a truncation leaves at its end
WithoutEllipsis(e) ==
  IF Len(e) >= Len(Ellipsis) /\ SubSeq(e, Len(e) - Len(Ellipsis) + 1, Len(e)) = Ellipsis
  THEN SubSeq(e, 1, Len(e) - Len(Ellipsis)) ELSE e

\* e stands in rawText as it is, runs of whitespace counted as one space
VerbatimIn(e, rawText) == includes(collapseWhitespace(rawText), WithoutEllipsis(e))

\* C15: every evidence snippet of every finding is non-empty, at most 220
\* characters long and a verbatim substring of the raw text of the snapshot
\* after whitespace collapsing, apart from the ellipsis of a truncation
C15_EvidenceIsVerbatim ==
  (Called /\ SafeSnapshot.textRaw.t = "string") =>
    \A i \in 1..Len(scan.risks) :
      \A j \in 1..Len(scan.risks[i].evidence) :
        /\ scan.risks[i].evidence[j] # ""
        /\ Len(scan.risks[i].evidence[j]) <= 220
        /\ VerbatimIn(scan.risks[i].evidence[j], SafeSnapshot.textRaw.s)

RECURSIVE HitsFrom(_, _, _)
\* where needle occurs in lowerRaw, left to right, an occurrence being looked
\* for after the end of the one before it
HitsFrom(lowerRaw, needle, from) ==
  LET p == indexOf(lowerRaw, needle, from)
  IN IF p = 0 THEN <<>> ELSE <<p>> \o HitsFrom(lowerRaw, needle, p + Len(needle))

SnippetsAtHits(rawText, needle, hits) ==
  [i \in 1..Len(hits) |->
     cleanEvidenceSnippet(
       SentenceAround(rawText, toLowerCase(rawText), hits[i], Len(needle)), 220)]

RECURSIVE CandidateSnippets(_, _, _)
\* the cleaned sentence of every hit: the phrases in the order of the list,
\* the hits of one phrase in the order of the text
CandidateSnippets(rawText, keywords, k) ==
  IF k > Len(keywords) THEN <<>>
  ELSE SnippetsAtHits(rawText, toLowerCase(keywords[k]),
                      HitsFrom(toLowerCase(rawText), toLowerCase(keywords[k]), 1))
         \o CandidateSnippets(rawText, keywords, k + 1)

EvidenceRawText == IF evidenceCall.rawText.t = "string" THEN evidenceCall.rawText.s ELSE ""

EvidenceCandidates == CandidateSnippets(EvidenceRawText, evidenceCall.keywords, 1)

\* the candidates that are not empty and differ, letter case aside, from every
\* candidate before them
FirstOfItsKind(candidates) ==
  { j \in 1..Len(candidates) :
      /\ candidates[j] # ""
      /\ \A i \in 1..(j - 1) : toLowerCase(candidates[i]) # toLowerCase(candidates[j]) }

\* C16: findKeywordEvidence returns at most maxSnippets snippets, no two of
\* them equal when letter case is ignored, in the order of the phrase list and
\* within one phrase in the order of the text; it returns the empty list when
\* rawText is empty or no phrase occurs in it
C16_EvidenceBoundedDistinctOrdered ==
  evidenceCall.returned =>
    LET out == evidenceCall.snippets
        kinds == FirstOfItsKind(EvidenceCandidates)
    IN /\ Len(out) <= evidenceCall.maxSnippets
       /\ Len(out) = IF Cardinality(kinds) < evidenceCall.maxSnippets
                     THEN Cardinality(kinds) ELSE evidenceCall.maxSnippets
       /\ \A i, j \in 1..Len(out) : i # j => toLowerCase(out[i]) # toLowerCase(out[j])
       /\ \A j \in kinds :
            Cardinality({ i \in kinds : i <= j }) <= Len(out) =>
              out[Cardinality({ i \in kinds : i <= j })] = EvidenceCandidates[j]
       /\ (EvidenceRawText = "" \/ Len(EvidenceCandidates) = 0) => out = <<>>

C16_Witness ==
  /\ evidenceCall.returned
  /\ Len(evidenceCall.snippets) = 3
  /\ Cardinality(FirstOfItsKind(EvidenceCandidates)) > 3
  /\ Len(EvidenceCandidates) > Cardinality(FirstOfItsKind(EvidenceCandidates))
  /\ \E j \in FirstOfItsKind(EvidenceCandidates) :
       \E i \in (1..Len(EvidenceCandidates)) \ FirstOfItsKind(EvidenceCandidates) :
         /\ i > j
         /\ EvidenceCandidates[i] # EvidenceCandidates[j]
         /\ toLowerCase(EvidenceCandidates[i]) = toLowerCase(EvidenceCandidates[j])

\* neither text field of the snapshot holds any text
EmptyText ==
  /\ SafeSnapshot.textRaw.t \in {"undefined", "string"}
  /\ SafeSnapshot.textRaw.s = ""
  /\ SafeSnapshot.textNormalized.t \in {"undefined", "string"}
  /\ SafeSnapshot.textNormalized.s = ""

\* C17: evaluating a snapshot with empty text whose URL is a string (or
\* absent) and not an auth URL returns risks = [], riskScore 0, overallLevel
\* LOW and hasMeaningfulContent false, with the four category scores present
\* and 0
C17_ScenarioA ==
  (/\ Called
   /\ ProgramClassifier
   /\ EmptyText
   /\ SafeSnapshot.url.t \in {"undefined", "string"}
   /\ ~LooksAuth)
  => /\ outcome = "returned"
     /\ result.risks = <<>>
     /\ result.riskScore = 0
     /\ result.overallLevel = "LOW"
     /\ ~result.hasMeaningfulContent
     /\ DOMAIN result.categoryScores = CategorySet
     /\ \A c \in CategorySet : result.categoryScores[c] = 0

C17_Witness ==
  /\ outcome = "returned"
  /\ engineRiskModel = "full"
  /\ engineRules = "full"
  /\ snapshot = PageSnapshot(BookingUrl, "", JsUndefined)
  /\ result.pageMode = "low-content"
  /\ ~result.hasMeaningfulContent

\* the text of the snapshot, raw and normalized, holds an arbitration or
\* jury-trial/class-action waiver phrase
HasArbitrationPhrase ==
  /\ SafeSnapshot.textNormalized.t = "string"
  /\ SafeSnapshot.textRaw.t = "string"
  /\ SomeIncluded(SafeSnapshot.textNormalized.s, ARBITRATION_keywords)
  /\ SomeIncluded(toLowerCase(SafeSnapshot.textRaw.s), ARBITRATION_keywords)

FindingsWithId(id) == { i \in 1..Len(scan.risks) : scan.risks[i].id = id }

\* C18: with the card mandatory_arbitration in the registry, a snapshot whose
\* text holds an arbitration or waiver phrase yields exactly one finding
\* mandatory_arbitration, of category legal_rights and severity high, whatever
\* else the text holds
C18_ScenarioC ==
  (Called /\ engineRules \in {"full", "stub"} /\ HasArbitrationPhrase) =>
    /\ Cardinality(FindingsWithId("mandatory_arbitration")) = 1
    /\ \A i \in FindingsWithId("mandatory_arbitration") :
         /\ scan.risks[i].category = "legal_rights"
         /\ scan.risks[i].severity = "HIGH"

C18_Witness ==
  /\ outcome = "returned"
  /\ engineRules = "full"
  /\ HasArbitrationPhrase
  /\ includes(SafeSnapshot.textNormalized.s, "waive your right to a jury trial")
  /\ Cardinality(FindingsWithId("mandatory_arbitration")) = 1
  /\ Len(scan.risks) > 1

\* what the time-window detector looks for, in the normalized text and (for
\* its evidence) in the raw text
NormalizedHolds(phrases) ==
  /\ SafeSnapshot.textNormalized.t = "string"
  /\ SomeIncluded(toLowerCase(SafeSnapshot.textNormalized.s), phrases)

RawHolds(phrases) ==
  /\ SafeSnapshot.textRaw.t = "string"
  /\ SomeIncluded(toLowerCase(SafeSnapshot.textRaw.s), phrases)

HasWindowContext == NormalizedHolds(<<"cancel", "refund">>)

FindingsWithTag(tag) ==
  { i \in 1..Len(scan.risks) :
      \E t \in 1..Len(scan.risks[i].tags) : scan.risks[i].tags[t] = tag }

\* C19: with the registry of riskModel.js, for text with cancellation/refund
\* context the time-window detector emits a finding ultra_short_refund_window
\* when a 24/48/72-hour phrase is present, a finding
\* short_refund_or_return_window when only a 7-day phrase is present, and no
\* finding when the context is absent
C19_TimeWindowCards ==
  (Called /\ engineRules = "full") =>
    /\ (HasWindowContext /\ NormalizedHolds(ultraShortPhrases) /\ RawHolds(ultraShortPhrases))
         => FindingsWithId("ultra_short_refund_window") # {}
    /\ (/\ HasWindowContext
        /\ ~NormalizedHolds(ultraShortPhrases)
        /\ NormalizedHolds(shortPhrases) /\ RawHolds(shortPhrases))
         => \E i \in FindingsWithTag("short_window") :
              scan.risks[i].id = "short_refund_or_return_window"
    /\ ~HasWindowContext =>
         FindingsWithTag("short_window") \cup FindingsWithTag("ultra_short") = {}

ResortVocabulary ==
  <<"resort fee", "facility fee", "amenity fee", "destination fee", "property fee">>

\* general fee language: the general fee terms, and on an Airbnb page the
\* Airbnb line-item phrases
GeneralFeeLanguage ==
  \/ NormalizedHolds(generalFeeTerms)
  \/ /\ includes(toLowerCase(PageUrl), "airbnb.")
     /\ NormalizedHolds(airbnbPhrases)

FeeFindings ==
  FindingsWithId("resort_or_facility_fee") \cup FindingsWithId("extra_fees_not_in_base_price")

\* C20: with both fee cards in the registry, an evaluation holds at most one
\* fee finding: resort_or_facility_fee whenever resort-style vocabulary
\* appears, general fee terms or not; extra_fees_not_in_base_price when only
\* general fee language appears; none when neither appears
C20_FeeDetectorCards ==
  (Called /\ engineRules \in {"full", "stub"}) =>
    /\ Cardinality(FeeFindings) <= 1
    /\ NormalizedHolds(ResortVocabulary) =>
         /\ FindingsWithId("resort_or_facility_fee") # {}
         /\ FindingsWithId("extra_fees_not_in_base_price") = {}
    /\ (~NormalizedHolds(ResortVocabulary) /\ GeneralFeeLanguage) =>
         /\ FindingsWithId("extra_fees_not_in_base_price") # {}
         /\ FindingsWithId("resort_or_facility_fee") = {}
    /\ (~NormalizedHolds(ResortVocabulary) /\ ~GeneralFeeLanguage) => FeeFindings = {}

C20_Witness ==
  /\ outcome = "returned"
  /\ engineRules = "full"
  /\ NormalizedHolds(ResortVocabulary)
  /\ NormalizedHolds(generalFeeTerms)
  /\ FindingsWithId("resort_or_facility_fee") # {}
  /\ Cardinality(FeeFindings) = 1

\* what the trial detector looks for after the trial phrase
HasAfterTrialLanguage ==
  NormalizedHolds(postTrialKeywords) \/ NormalizedHolds(billingKeywords)

\* C21: with the registry of riskModel.js, a snapshot whose text mentions a
\* free trial together with a post-trial or recurring-billing phrase yields a
\* finding trial_converts_to_paid_subscription of category financial, and a
\* snapshot that mentions a trial with neither kind of phrase yields no such
\* finding
C21_TrialConversion ==
  (Called /\ engineRules = "full") =>
    /\ (NormalizedHolds(trialKeywords) /\ RawHolds(trialKeywords) /\ HasAfterTrialLanguage)
         => \E i \in FindingsWithId("trial_converts_to_paid_subscription") :
              scan.risks[i].category = "financial"
    /\ (NormalizedHolds(trialKeywords) /\ ~HasAfterTrialLanguage)
         => FindingsWithId("trial_converts_to_paid_subscription") = {}

\* C22: every finding of evaluateAll carries at least one evidence entry, and
\* when the snapshot has no raw text to extract evidence from (textRaw absent
\* or empty) no detector produces a finding, whatever the normalized text holds
C22_FindingsCarryEvidence ==
  (Called /\ engineRules # "null") =>
    /\ \A i \in 1..Len(scan.risks) : Len(scan.risks[i].evidence) >= 1
    /\ ~Truthy(SafeSnapshot.textRaw) => scan.risks = <<>>

SkippedPage(href) ==
  \/ isBlockedDomain(HostnameOf(href))
  \/ isSearchEngineHost(HostnameOf(href))
  \/ isSearchResultsPage(HostnameOf(href), href)

\* C23: no scan runs while the current page is a blocked domain, a
\* search-engine host or a search-results page, whether the scan is the initial
\* one, follows an SPA URL change or is a mutation-triggered re-scan
C23_NoScanOnSkippedPages ==
  \A s \in scanner.scanned : ~SkippedPage(s.url)

\* C29: the observer of the latest startDynamicObserver call stays connected
\* during the 5 seconds after the call, no observer is disconnected by the
\* timer of an earlier call, and at most one observer is connected
C29_ObserverKeepsItsFiveSeconds ==
  /\ \A k \in 1..Len(scanner.observers) :
       ~scanner.observers[k].connected => scanner.observers[k].disconnectedBy \in {0, k}
  /\ Len(scanner.observers) > 0 =>
       (scanner.now < scanner.observers[Len(scanner.observers)].created
                        + Ticks(OBSERVER_LIFETIME_MS)
          => scanner.observers[Len(scanner.observers)].connected)
  /\ Cardinality({ k \in 1..Len(scanner.observers) : scanner.observers[k].connected }) <= 1

\* C26: every card id a detector passes to createRiskFromCard on a scanned
\* page is defined in the registry shipped in riskModel.js, so no detector
\* is silenced by an unknown-card lookup
C26_RequestedCardsAreShipped ==
  (Called /\ engineRules # "null") =>
    /\ RequestedCardIds \subseteq DOMAIN RISK_CARDS
    /\ \A i \in 1..Len(RequestsOf(RISK_CARDS, SafeSnapshot)) :
         RequestsOf(RISK_CARDS, SafeSnapshot)[i].id \in DOMAIN RISK_CARDS

\* C27: on the findings the rule catalog produced, computeCategoryScores of
\* the risk model and computeCategoryScoresLocal of the engine return the same
\* four category scores, hence the same global score
C27_ScoringPathsAgree ==
  (Called /\ engineRules = "full") =>
    /\ computeCategoryScores(scan.risks) = computeCategoryScoresLocal(scan.risks)
    /\ computeGlobalRiskScore(computeCategoryScores(scan.risks))
         = computeGlobalRiskScoreLocal(computeCategoryScoresLocal(scan.risks))

\* the tab a current-risk request is about: payload.tabId when it is a number,
\* else the tab of the sender; MaxTabId + 1 when there is neither
RequestedTab(message) ==
  IF message.payload.tabId.t = "number" THEN message.payload.tabId.n ELSE message.sender

\* C28: after every handled message the store holds, for every tab, the last
\* scan-complete handled from that tab; a current-risk request for tab t is
\* answered with that entry (null when there is none); a scan-complete of a
\* tab leaves the entries of the other tabs as they were; a scan-complete or a
\* request without a tab id is answered NO_TAB_ID and leaves the store unchanged
C28_PerTabLastWriteWins ==
  /\ worker.latestRiskByTabId = worker.reported
  /\ (worker.handled > 0 /\ worker.lastMessage.type = "SCRIBBIT_GET_CURRENT_RISK") =>
       /\ worker.latestRiskByTabId = worker.storeBefore
       /\ IF RequestedTab(worker.lastMessage) \in TabIds
          THEN /\ worker.lastResponse.ok
               /\ worker.lastResponse.risk = worker.reported[RequestedTab(worker.lastMessage)]
          ELSE worker.lastResponse = ErrorResponse("NO_TAB_ID")
  /\ (worker.handled > 0 /\ worker.lastMessage.type = "SCRIBBIT_SCAN_COMPLETE") =>
       IF worker.lastMessage.sender \in TabIds
       THEN /\ worker.lastResponse = OkResponse
            /\ worker.latestRiskByTabId[worker.lastMessage.sender].body
                 = worker.lastMessage.payload.body
            /\ \A t \in TabIds \ {worker.lastMessage.sender} :
                 worker.latestRiskByTabId[t] = worker.storeBefore[t]
       ELSE /\ worker.lastResponse = ErrorResponse("NO_TAB_ID")
            /\ worker.latestRiskByTabId = worker.storeBefore

\* tab 0 and tab 1 have reported different scans, tab 0 before tab 1, and a
\* request of the popup for tab 0 was answered with the scan of tab 0
C28_Witness ==
  /\ worker.handled = 3
  /\ worker.lastMessage.type = "SCRIBBIT_GET_CURRENT_RISK"
  /\ worker.lastMessage.sender = PopupSender
  /\ RequestedTab(worker.lastMessage) = 0
  /\ worker.lastResponse.risk.present
  /\ worker.lastResponse.risk.tabId = 0
  /\ worker.lastResponse.risk.timestamp = 1
  /\ worker.reported[1].present
  /\ worker.reported[1].body # worker.lastResponse.risk.body

\* C30: once every saveDomainPanelState call has finished, the stored object
\* holds for every hostname the last mode saved for it, however the get and
\* set steps of the calls of pages on different hostnames interleave
C30_SavesKeepOtherHostnames ==
  (\A h \in StorageHostnames : storage.saves[h] = <<>>) =>
    \A h \in StorageHostnames :
      storage.lastSaved[h] # "none" => storage.stored[h] = storage.lastSaved[h]

====
